---- MODULE Spec2Model ----
(***************************************************************************)
(* WebHound: the fetch-and-analyze pipeline of the scanner crate.          *)
(*                                                                         *)
(* run_scan lists the URLs of a domain, fans process_single_url out over   *)
(* the deduplicated seed set with a concurrency of 4, and every URL task   *)
(* fetches (live, else Wayback), persists, scans, inspects archives,       *)
(* follows the links of an HTML seed one level deep and dispatches         *)
(* screenshot tasks.  The report file is shared behind an async mutex.     *)
(***************************************************************************)
EXTENDS Integers, Sequences, FiniteSets, Bags, TLC

VARIABLES
    phase,      \* position of run_scan: "boot", the start-up steps, "fanout",
                \* "done" (Ok returned), "failed" (Err returned)
    listing,    \* lines of out.txt (the CDX listing): text and surrounding whitespace
    seeds,      \* the deduplicated seed set handed to the stream
    task,       \* seed -> state of its process_single_url future
    lock,       \* holder of the info_file mutex (a seed) or NoUrl
    report,     \* lines of sensitive_info.txt
    files,      \* paths written below the workspace
    shots,      \* bag of spawned screenshot tasks that have not finished
    faults,     \* number of injected I/O errors so far
    chrome,     \* BROWSER_MANAGER and the blocking workers of the screenshot tasks
    probe,      \* the call in hand when a function is exercised on its own
    startup     \* what the start-up of run_scan has done so far, in order

vars == <<phase, listing, seeds, task, lock, report, files, shots, faults, chrome, probe,
          startup>>

----------------------------------------------------------------------------
(* Bounds of the model *)

NumFill == 5        \* seeds of the wide listing (more than the concurrency)
MaxFaults == 1      \* injected disk / report / archive errors per run
NumShots == 2       \* screenshot tasks running side by side on blocking workers
MaxTabErrors == 2   \* failing new_tab calls per run

----------------------------------------------------------------------------
(* Program constants *)

Concurrency == 4

SAMPLE_LEN == 2048

TEXT_EXTS ==
    {"html", "htm", "shtml", "xhtml", "php", "asp", "aspx", "jsp",
     "txt", "js", "json", "xml", "csv", "ini", "conf", "config",
     "env", "yaml", "yml", "log", "bak", "old", "sql"}

ARCHIVE_EXTS == {"zip", "tar", "tgz", "gz", "bz2", "xz"}

INTERESTING_NAMES == {<<"robots", "txt">>, <<"sitemap", "xml">>}

----------------------------------------------------------------------------
(* URLs.  A URL string is kept as its parts: the innermost scheme, host    *)
(* and last path segment (split at '.'), and the Wayback timestamps that   *)
(* wrap it: "https://web.archive.org/web/{ts}id_/{inner}".                 *)

MkUrl(s, h, n) == [wraps |-> <<>>, scheme |-> s, host |-> h, name |-> n, bang |-> <<>>]

NoUrl == MkUrl("", "", <<>>)

Min(a, b) == IF a < b THEN a ELSE b

\* Url::scheme of the whole string
scheme_of(u) == IF u.wraps # <<>> THEN "https" ELSE u.scheme

\* Url::host_str of the whole string ("" when there is none)
host_str(u) == IF u.wraps # <<>> THEN "web.archive.org" ELSE u.host

\* ASCII lowercase of the extensions that occur in the model
to_ascii_lowercase(s) ==
    CASE s = "HTML" -> "html"
      [] s = "TAR" -> "tar"
      [] OTHER -> s

\* format!("https://web.archive.org/web/{}id_/{}", ts, original_url)
archived_url(ts, u) == [u EXCEPT !.wraps = <<ts>> \o @]

\* format!("{base_url}!{name}"): the virtual URL of an archive member
virt_url(base_url, name) == [base_url EXCEPT !.bang = name]

None == {}
Some(x) == {x}

\* detect_ext: text after the last '.' of the last path segment, lowercased
detect_ext(u) ==
    IF u = NoUrl \/ Len(u.name) < 2
    THEN None
    ELSE Some(to_ascii_lowercase(u.name[Len(u.name)]))

ext_or_bin(u) == IF detect_ext(u) = None THEN "bin" ELSE CHOOSE e \in detect_ext(u) : TRUE

is_html_ext(ext) ==
    ext \in {"html", "htm", "shtml", "xhtml", "php", "asp", "aspx", "jsp"}

\* the SHA-256 prefix, taken as collision free: a token of the whole string
sha_short(u) == <<"sha", u>>

\* sanitize_filename: "{host}{path}__{short}"
sanitize_filename(u) ==
    [base |-> <<(IF host_str(u) = "" THEN "unknown" ELSE host_str(u)),
                u.wraps, u.name, u.bang>>,
     short |-> sha_short(u)]

asset_path_for(u, ext) ==
    LET safe == sanitize_filename(u) IN
    IF ext = "js"
    THEN [dir |-> "JSscripts", sub |-> "", safe |-> safe, ext |-> "js"]
    ELSE [dir |-> "assets",
          sub |-> (IF ext \in TEXT_EXTS \/ ext \in ARCHIVE_EXTS THEN ext ELSE "bin"),
          safe |-> safe, ext |-> ext]

build_asset_path_from_parts(u, ext) ==
    [dir |-> "assets",
     sub |-> (IF ext \in TEXT_EXTS \/ ext \in ARCHIVE_EXTS THEN ext ELSE "bin"),
     safe |-> sanitize_filename(u), ext |-> ext]

screenshot_path(u) ==
    [dir |-> "screenshots", sub |-> "", safe |-> sanitize_filename(u), ext |-> "png"]

\* root_of: "{scheme}://{host}" when the URL has a host
root_of(u) ==
    IF u = NoUrl \/ host_str(u) = ""
    THEN None
    ELSE Some(MkUrl(scheme_of(u), host_str(u), <<>>))

\* format!("{}/{}", root, name)
root_child(root, n) == [root EXCEPT !.name = n]

----------------------------------------------------------------------------
(* Attribute values of a page.  A raw href/src value is its surrounding    *)
(* whitespace, what it starts with ("#", "mailto:", "javascript:", "data:",*)
(* "abs" for any other absolute URL, "rel" for a relative reference,       *)
(* "empty"), the relative name, and the URL it parses to on its own.       *)

Href(kind, n, u) == [pad |-> FALSE, kind |-> kind, name |-> n, url |-> u]
Padded(h) == [h EXCEPT !.pad = TRUE]

\* str::trim
trim(raw) == [raw EXCEPT !.pad = FALSE]

SkipKinds == {"#", "mailto:", "javascript:", "data:"}

\* Url::join of a relative reference: the last path segment is replaced
url_join(base, n) == [base EXCEPT !.name = n]

\* only empty values and fragments are dropped
normalize_url_keeps_schemes(base, raw) ==
    LET s == trim(raw) IN
    IF s.kind \in {"empty", "#"} THEN None
    ELSE IF s.kind = "rel" THEN Some(url_join(base, s.name))
    ELSE Some(s.url)

\* normalize_url: trim, drop "" / "#..." / "mailto:..." / "javascript:..." /
\* "data:...", then an absolute URL as it is, anything else joined to the base
normalize_url(base, raw) ==
    LET s == trim(raw) IN
    IF s.kind = "empty" THEN None
    ELSE IF s.kind \in SkipKinds THEN None
    ELSE IF s.kind = "abs" THEN Some(s.url)
    ELSE IF s.kind = "rel" THEN Some(url_join(base, s.name))
    ELSE None

\* extract_links: every href value, then every src value, into a set
extract_links(html, base) ==
    IF base = NoUrl
    THEN {}
    ELSE UNION {normalize_url(base, html.hrefs[i]) : i \in 1..Len(html.hrefs)}
         \cup UNION {normalize_url(base, html.srcs[i]) : i \in 1..Len(html.srcs)}

----------------------------------------------------------------------------
(* Pattern library (core::patterns): named rules and the two ignore        *)
(* predicates.  Their contents are data.                                   *)

Hit(rule, value) == [rule |-> rule, value |-> value]

should_ignore_value(v) == v \in {"example"}

should_ignore_path(u) == detect_ext(u) = Some("png")

----------------------------------------------------------------------------
(* Response bodies.  A body is kept as what the pipeline reads of it: its  *)
(* length, the number of bytes of the sniffed sample outside printable     *)
(* ASCII and \n \r \t, whether it is UTF-8, the pattern matches in it in   *)
(* discovery order, its href and src values, and its archive members.      *)

Body(len, weird, matches, hrefs, srcs, members) ==
    [len |-> len, weird |-> weird, utf8 |-> TRUE, matches |-> matches,
     hrefs |-> hrefs, srcs |-> srcs, valid |-> TRUE, members |-> members]

NoBody == Body(0, 0, <<>>, <<>>, <<>>, <<>>)

Member(name, isfile, len, weird, matches) ==
    [name |-> name, file |-> isfile, len |-> len, weird |-> weird,
     utf8 |-> TRUE, matches |-> matches]

is_probably_text(data) ==
    IF data.len = 0
    THEN FALSE
    ELSE LET sample_len == Min(data.len, SAMPLE_LEN) IN data.weird * 10 < sample_len

\* scan_patterns: the matches of every rule that should_ignore_value keeps
scan_patterns(text) ==
    SelectSeq(text.matches, LAMBDA m : ~should_ignore_value(m.value))

----------------------------------------------------------------------------
(* The modelled web and the listings the CDX index can return for it.      *)

Ex(n) == MkUrl("http", "ex.test", n)

UrlA == Ex(<<"a", "html">>)
UrlB == Ex(<<"b", "html">>)
UrlC == Ex(<<"c", "TAR">>)
UrlS == Ex(<<"s", "HTML">>)
UrlP == Ex(<<"p", "txt">>)
UrlD == Ex(<<"d", "html">>)
UrlFill(i) == Ex(<<"f" \o ToString(i), IF i = 1 THEN "png" ELSE "bin">>)

\* one seed more than the stream keeps in flight
NumWide == Concurrency + 1
UrlWide(i) == Ex(<<"g" \o ToString(i), "bin">>)

PageA ==
    Body(120, 0, <<Hit("aws", "AKIA1")>>,
         <<Href("rel", <<"b", "html">>, NoUrl), Href("mailto:", <<>>, MkUrl("mailto", "", <<"x@y">>)),
           Href("#", <<>>, NoUrl), Href("empty", <<>>, NoUrl)>>,
         <<Padded(Href("rel", <<"b", "html">>, NoUrl)),
           Href("rel", <<"logo", "png">>, NoUrl)>>,
         <<>>)

PageB == Body(80, 2, <<Hit("pwd", "secret")>>, <<Href("abs", <<>>, UrlA)>>, <<>>, <<>>)

PageS ==
    Body(60, 0, <<Hit("mail", "example")>>,
         <<Href("mailto:", <<>>, MkUrl("mailto", "", <<"x@y">>)), Padded(Href("javascript:", <<>>, MkUrl("javascript", "", <<"void(0)">>))),
           Href("#", <<>>, NoUrl)>>,
         <<Href("data:", <<>>, MkUrl("data", "", <<"image/png;base64,AAAA">>))>>,
         <<>>)

\* a page whose only link leads to the page itself
PageD == Body(50, 0, <<>>, <<Href("rel", <<"d", "html">>, NoUrl)>>, <<>>, <<>>)

TarC ==
    Body(4096, 150, <<Hit("aws", "AKIA2")>>, <<>>, <<>>,
         <<Member(<<"d">>, FALSE, 0, 0, <<>>),
           Member(<<"k", "env">>, TRUE, 30, 0, <<Hit("pwd", "p1")>>),
           Member(<<"n", "txt">>, TRUE, 20, 2, <<Hit("key", "k1")>>)>>)

PageP == Body(50, 1, <<Hit("pwd", "hunter2"), Hit("mail", "example"), Hit("key", "k9")>>,
              <<>>, <<>>, <<>>)

\* bytes with a match in them that are not UTF-8
Plain == [Body(40, 0, <<Hit("pwd", "r1")>>, <<>>, <<>>, <<>>) EXCEPT !.utf8 = FALSE]

Noise == Body(16, 9, <<>>, <<>>, <<>>, <<>>)

\* the bytes a URL serves (the archived copy serves the same bytes)
Resource(u) ==
    CASE u.name = <<"a", "html">> -> PageA
      [] u.name = <<"b", "html">> -> PageB
      [] u.name = <<"s", "HTML">> -> PageS
      [] u.name = <<"c", "TAR">> -> TarC
      [] u.name = <<"p", "txt">> -> PageP
      [] u.name = <<"d", "html">> -> PageD
      [] u.name = <<"robots", "txt">> -> Plain
      [] OTHER -> Noise

\* URLs of a server that answers every request with 200 and a full body
Steady(u) == u.name \in {UrlWide(i).name : i \in 1..NumWide}

\* URLs that are gone: the live server answers 404 and the index knows nothing
Dead(u) ==
    /\ u.name \notin {UrlA.name, UrlB.name, UrlC.name, UrlS.name, UrlP.name, UrlD.name,
                     <<"robots", "txt">>}
    /\ ~Steady(u)

\* outcomes of timeout(15 s, send()) of the live GET
LiveResults(u) ==
    IF Dead(u) THEN {"non2xx", "timeout"}
    ELSE IF Steady(u) THEN {"2xx"}
    ELSE {"2xx", "non2xx", "timeout", "neterr"}

\* outcomes of reading the body of a 2xx response: read in full, or an error
BodyResults(u) == IF Steady(u) THEN {TRUE} ELSE BOOLEAN

\* CDX replies: a JSON value is a sequence of rows of cells, or not JSON
Cell(isstr, v) == [str |-> isstr, v |-> v]
CdxJson(rows) == [json |-> TRUE, rows |-> rows]
CdxHeader == <<Cell(TRUE, "timestamp"), Cell(TRUE, "original")>>

CdxReplies(u) ==
    {[json |-> FALSE, rows |-> <<>>],
     CdxJson(<<>>),
     CdxJson(<<CdxHeader>>),
     CdxJson(<<CdxHeader, <<>>>>),
     CdxJson(<<CdxHeader, <<Cell(FALSE, "2024"), Cell(TRUE, "orig")>>>>)}
    \cup (IF Dead(u) THEN {}
          ELSE {CdxJson(<<CdxHeader, <<Cell(TRUE, "t1"), Cell(TRUE, "orig")>>>>)})

\* a line of out.txt: its text without the whitespace around it, and whether
\* there is such whitespace
Line(u) == [text |-> u, ws |-> FALSE]
PadLine(u) == [text |-> u, ws |-> TRUE]

Listings ==
    {<<Line(UrlA), Line(NoUrl), PadLine(UrlA), PadLine(NoUrl)>>,
     <<Line(UrlC), Line(UrlP)>>,
     <<Line(UrlS)>>,
     <<Line(UrlD)>>,
     [i \in 1..NumFill |-> Line(UrlFill(i))],
     <<Line(NoUrl)>>}

\* the listing of a site of NumWide pages, all of them served
WideListing == [i \in 1..NumWide |-> Line(UrlWide(i))]

----------------------------------------------------------------------------
(* State of one URL task (the future of process_single_url for a seed).    *)
(* pc is the await point the future is suspended at.                       *)

NoReply == [json |-> FALSE, rows |-> <<>>]

IdleTask ==
    [pc |-> "idle",         \* "idle": still in the stream; "done": finished
     ctx |-> "seed",        \* the resource in hand is the seed or a child
     url |-> NoUrl,         \* original_url of the fetch in hand
     eff |-> NoUrl,         \* final_url / real_u of the resource in hand
     arc |-> FALSE,         \* the archive-used flag of the last fetch
     reply |-> NoReply,     \* the CDX reply of the last fetch
     body |-> NoBody,       \* the bytes in hand
     final_url |-> NoUrl,   \* the seed's effective URL while its children are handled
     todo |-> {},           \* children of the page not yet visited
     hits |-> <<>>,         \* findings of the block being written / collected
     wr |-> 0,              \* lines of the block written so far
     blk |-> 0,             \* blocks this task has begun
     arch |-> FALSE,        \* the block in hand is an archive block
     mi |-> 0,              \* archive member in hand
     log |-> <<>>,          \* steps taken, in order
     res |-> "none"]        \* result of process_single_url

\* an entry of the step log: what was done, to which URL, for the seed or a child
Ev(what, u, ctx) == [what |-> what, url |-> u, ctx |-> ctx]

InFlight(tk) == {n \in DOMAIN tk : tk[n].pc \notin {"idle", "done"}}

\* the stream has `concurrency` slots and pulls the next seed into a free one
buffer_batch(tk) ==
    LET idle == {n \in DOMAIN tk : tk[n].pc = "idle"}
        k == IF InFlight(tk) = {} THEN Min(Concurrency, Cardinality(idle)) ELSE 0
    IN {[n \in DOMAIN tk |-> IF n \in S THEN [tk[n] EXCEPT !.pc = "start"] ELSE tk[n]] :
            S \in {X \in SUBSET idle : Cardinality(X) = k}}

\* buffer_unordered(concurrency): pull seeds from the stream, in the set's
\* arbitrary order, until `concurrency` futures are in progress
buffer_unordered(tk) ==
    LET idle == {n \in DOMAIN tk : tk[n].pc = "idle"}
        room == Concurrency - Cardinality(InFlight(tk))
        k == Min(room, Cardinality(idle))
    IN {[n \in DOMAIN tk |-> IF n \in S THEN [tk[n] EXCEPT !.pc = "start"] ELSE tk[n]] :
            S \in {X \in SUBSET idle : Cardinality(X) = k}}

\* every line is a seed, the blank ones too
read_urls_keeps_blank(lines) == {lines[i].text : i \in 1..Len(lines)}

\* read_urls + retain + HashSet: the distinct trimmed lines that are not empty
read_urls(lines) == {lines[i].text : i \in 1..Len(lines)} \ {NoUrl}

\* collect() ends when the stream is exhausted and no screenshot task is left
Complete_joining_shots(s, t1, r) ==
    \E tk \in buffer_unordered([task EXCEPT ![s] = [t1 EXCEPT !.pc = "done", !.res = r]]) :
        /\ task' = tk
        /\ phase' = IF (\A n \in seeds : tk[n].pc = "done") /\ shots = EmptyBag
                    THEN "done" ELSE phase

\* the future of a seed returns with result r: the closure logs an Err and
\* yields Ok(()), the next seed is pulled, and collect() ends when the stream is
\* exhausted
Complete(s, t1, r) ==
    \E tk \in buffer_unordered([task EXCEPT ![s] = [t1 EXCEPT !.pc = "done", !.res = r]]) :
        /\ task' = tk
        /\ phase' = IF \A n \in seeds : tk[n].pc = "done" THEN "done" ELSE phase

----------------------------------------------------------------------------
(* BROWSER_MANAGER and the screenshot workers.  A browser is known by the  *)
(* order of its launch (1, 2, ...); 0 stands for None.                      *)

ShotWorkers == 1..NumShots

IdleJob ==
    [pc |-> "idle",     \* where the closure of make_screenshot_task stands
     url |-> NoUrl,     \* fixed_url
     attempt |-> 0,     \* the loop variable
     browser |-> 0,     \* the instance get() returned for this attempt
     failed |-> 0,      \* the instance whose new_tab failed on attempt 1
     first |-> "none"]  \* outcome of new_tab on attempt 1

NoChrome ==
    [slot |-> 0,            \* BrowserManager.inner
     launched |-> 0,        \* browsers launched so far
     invalidations |-> 0,   \* effective calls of invalidate()
     tab_errors |-> 0,      \* failed calls of new_tab
     poisoned |-> FALSE,    \* the std Mutex is poisoned
     job |-> [w \in ShotWorkers |-> IdleJob]]

NoProbe == [fn |-> "none"]

----------------------------------------------------------------------------
(* run_scan: start-up *)

Init ==
    /\ phase = "boot"
    /\ listing = <<>>
    /\ seeds = {}
    /\ task = [n \in {} |-> IdleTask]
    /\ lock = NoUrl
    /\ report = <<>>
    /\ files = {}
    /\ shots = EmptyBag
    /\ faults = 0
    /\ chrome = NoChrome
    /\ probe = NoProbe
    /\ startup = <<>>

\* a failed start-up step is printed and run_scan goes on
after_startup_error_swallowed(next) == next

\* `?` in run_scan: the error of a start-up step is returned
after_startup_error(next) == "failed"

\* a start-up step without a result: it succeeds, leaves its mark `done` and
\* run_scan goes on at `next`, or it fails
startup_step(at, done, next) ==
    /\ phase = at
    /\ \E ok \in BOOLEAN :
        IF ok
        THEN startup' = Append(startup, done) /\ phase' = next
        ELSE startup' = startup /\ phase' = after_startup_error(next)
    /\ UNCHANGED <<listing, seeds, task, lock, report, files, shots, faults, chrome, probe>>

\* Paths::new: create_dir_all of the three directories
Paths_new == startup_step("boot", "dirs", "paths")

\* fetch_wayback_urls: the CDX GET fails, answers without success or breaks
\* off, or the body arrives
fetch_wayback_urls_of(index) ==
    /\ phase = "paths"
    /\ \E ok \in BOOLEAN :
        IF ok
        THEN \E l \in index :
                /\ listing' = l
                /\ startup' = Append(startup, "fetch")
                /\ phase' = "fetched"
        ELSE listing' = listing /\ startup' = startup
             /\ phase' = after_startup_error("fetched")
    /\ UNCHANGED <<seeds, task, lock, report, files, shots, faults, chrome, probe>>

fetch_wayback_urls == fetch_wayback_urls_of(Listings)

\* fs::write(out.txt, body)
write_out_txt == startup_step("fetched", "out.txt", "listed")

\* the hosts the lines of out.txt name after http:// or https://
subdomains_of(lines) ==
    {host_str(lines[i].text) :
        i \in {j \in 1..Len(lines) : scheme_of(lines[j].text) \in {"http", "https"}}}

\* extract_subdomains(out.txt)
extract_subdomains == startup_step("listed", "extract", "extracted")

\* `if !subdomains.is_empty() { fs::write(subdomains.txt, ..)? }`
write_subdomains ==
    IF subdomains_of(listing) # {}
    THEN startup_step("extracted", "subdomains.txt", "subs")
    ELSE /\ phase = "extracted"
         /\ phase' = "subs"
         /\ UNCHANGED <<listing, seeds, task, lock, report, files, shots, faults, chrome,
                        probe, startup>>

\* File::create(sensitive_info.txt)
create_report == startup_step("subs", "sensitive_info.txt", "report")

\* read_urls, dedup and the first poll of the stream
run_scan_fan_out ==
    /\ phase = "report"
    /\ \E ok \in BOOLEAN :
        IF ok
        THEN LET us == read_urls(listing) IN
             /\ seeds' = us
             /\ \E tk \in buffer_unordered([n \in us |-> IdleTask]) : task' = tk
             /\ phase' = IF us = {} THEN "done" ELSE "fanout"
        ELSE seeds' = seeds /\ task' = task /\ phase' = after_startup_error("fanout")
    /\ UNCHANGED <<listing, lock, report, files, shots, faults, chrome, probe, startup>>

----------------------------------------------------------------------------
(* The steps of handle_response_for_url, in the order of the code; the     *)
(* body of the child loop of handle_html_links takes the same steps        *)
(* without the links.                                                      *)

PIPELINE_shot_early == <<"persist", "scan", "arc_open", "shot", "links">>

PIPELINE_archive_first == <<"persist", "arc_open", "scan", "links", "shot">>

PIPELINE == <<"persist", "scan", "arc_open", "links", "shot">>

\* links are followed for any HTML resource
follows_links_any(t) == is_html_ext(ext_or_bin(t.eff)) /\ t.body.utf8

\* links are followed in handle_response_for_url only: for the seed, when its
\* extension is an HTML one and its bytes are UTF-8
follows_links(t) == t.ctx = "seed" /\ is_html_ext(ext_or_bin(t.eff)) /\ t.body.utf8

\* no screenshot of an archive
applicable_no_archive_shot(t, stage) ==
    CASE stage = "arc_open" -> ext_or_bin(t.eff) \in ARCHIVE_EXTS
      [] stage = "links" -> follows_links(t)
      [] stage = "shot" -> ext_or_bin(t.eff) \notin ARCHIVE_EXTS
      [] OTHER -> TRUE

applicable(t, stage) ==
    CASE stage = "arc_open" -> ext_or_bin(t.eff) \in ARCHIVE_EXTS
      [] stage = "links" -> follows_links(t)
      [] OTHER -> TRUE

\* the step that follows `stage` ("fetched": the first one), "end" after the last
next_stage(t, stage) ==
    LET at == {i \in 1..Len(PIPELINE) : PIPELINE[i] = stage}
        from == IF at = {} THEN 0 ELSE CHOOSE i \in at : TRUE
        later == {j \in (from + 1)..Len(PIPELINE) : applicable(t, PIPELINE[j])}
    IN IF later = {} THEN "end"
       ELSE PIPELINE[CHOOSE j \in later : \A k \in later : j <= k]

\* the task, in state t1 after `stage`, goes on; at the end of the child's
\* steps the loop goes on, at the end of the seed's steps the future returns
Advance(s, t1, stage) ==
    LET n == next_stage(t1, stage) IN
    IF n # "end"
    THEN task' = [task EXCEPT ![s] = [t1 EXCEPT !.pc = n]] /\ phase' = phase
    ELSE IF t1.ctx = "child"
    THEN task' = [task EXCEPT ![s] = [t1 EXCEPT !.pc = "child"]] /\ phase' = phase
    ELSE Complete(s, t1, "ok")

----------------------------------------------------------------------------
(* fetch_live_or_wayback, one await at a time *)

\* the fetch begins: the live GET is sent
issue_fetch(t, u, ctx) ==
    [t EXCEPT !.pc = "live", !.ctx = ctx, !.url = u, !.eff = NoUrl, !.arc = FALSE,
              !.reply = NoReply, !.body = NoBody, !.log = Append(@, Ev("fetch", u, ctx))]

\* Ok((data, effective, archive_used)) reaches the caller
fetched(t, eff, arc, data) ==
    [t EXCEPT !.eff = eff, !.arc = arc, !.body = data,
              !.log = Append(@, Ev("fetched", eff, t.ctx))]

\* Err(e) reaches the caller
fetch_failed(t) ==
    [t EXCEPT !.eff = NoUrl, !.reply = NoReply,
              !.log = Append(@, Ev("fetch_err", t.url, t.ctx))]

\* where the live attempt goes: a 2xx response is read, anything else falls
\* through to the CDX query
after_live_send(outcome) == IF outcome = "2xx" THEN "live_body" ELSE "cdx"

\* the timestamp is taken from column 1
cdx_timestamp_col1(val) ==
    IF ~val.json THEN None
    ELSE IF Len(val.rows) < 2 THEN None
    ELSE LET row == val.rows[2] IN
         IF Len(row) < 2 THEN None
         ELSE IF ~row[2].str THEN None
         ELSE Some(row[2].v)

\* val.as_array().get(1).get(0).as_str()
cdx_timestamp(val) ==
    IF ~val.json THEN None
    ELSE IF Len(val.rows) < 2 THEN None
    ELSE LET row == val.rows[2] IN
         IF Len(row) < 1 THEN None
         ELSE IF ~row[1].str THEN None
         ELSE Some(row[1].v)

\* the Err arm dispatches the screenshot all the same
after_fetch_error_shot(ctx) == IF ctx = "seed" THEN "shot" ELSE "child"

\* the Err arm returns from the function, for a child too
after_fetch_error_return(ctx) == "end"

\* the caller's Err arm: process_single_url logs and returns, the child loop
\* logs and goes on
after_fetch_error(ctx) == IF ctx = "seed" THEN "end" ELSE "child"

\* the Err arm passes the error on
seed_fetch_error_result_err == "err"

\* the result of process_single_url when the seed's fetch failed: Ok(())
seed_fetch_error_result == "ok"

FetchErr(s, t) ==
    LET t1 == fetch_failed(t)
        n == after_fetch_error(t.ctx) IN
    IF n = "end"
    THEN Complete(s, t1, seed_fetch_error_result)
    ELSE task' = [task EXCEPT ![s] = [t1 EXCEPT !.pc = n]] /\ phase' = phase

process_single_url(s) ==
    /\ phase = "fanout"
    /\ task[s].pc = "start"
    /\ IF should_ignore_path(s)
       THEN Complete(s, task[s], "ok")
       ELSE /\ task' = [task EXCEPT ![s] = issue_fetch(@, s, "seed")]
            /\ phase' = phase
    /\ UNCHANGED <<listing, seeds, lock, report, files, shots, faults, chrome, probe, startup>>

live_send(s) ==
    /\ task[s].pc = "live"
    /\ \E o \in LiveResults(task[s].url) :
         task' = [task EXCEPT ![s].pc = after_live_send(o)]
    /\ UNCHANGED <<phase, listing, seeds, lock, report, files, shots, faults, chrome, probe, startup>>

\* `ok.bytes().await?`
live_body(s) ==
    /\ task[s].pc = "live_body"
    /\ LET t == task[s] IN
       \E ok \in BodyResults(t.url) :
        IF ok
        THEN Advance(s, fetched(t, t.url, FALSE, Resource(t.url)), "fetched")
        ELSE FetchErr(s, t)
    /\ UNCHANGED <<listing, seeds, lock, report, files, shots, faults, chrome, probe, startup>>

\* the CDX GET: send error, status other than 200, or the reply's headers
cdx_send(s) ==
    /\ task[s].pc = "cdx"
    /\ \E o \in {"neterr", "non200", "200"} :
        IF o = "200"
        THEN task' = [task EXCEPT ![s].pc = "cdx_body"] /\ phase' = phase
        ELSE FetchErr(s, task[s])
    /\ UNCHANGED <<listing, seeds, lock, report, files, shots, faults, chrome, probe, startup>>

\* the CDX body: read error, or the JSON value and its timestamp; then the
\* archived GET is sent
cdx_body(s) ==
    /\ task[s].pc = "cdx_body"
    /\ \/ FetchErr(s, task[s])
       \/ \E val \in CdxReplies(task[s].url) :
            LET ts == cdx_timestamp(val) IN
            IF ts = None
            THEN FetchErr(s, task[s])
            ELSE /\ task' = [task EXCEPT ![s].pc = "arch", ![s].reply = val,
                                         ![s].eff = archived_url(CHOOSE x \in ts : TRUE,
                                                                 task[s].url)]
                 /\ phase' = phase
    /\ UNCHANGED <<listing, seeds, lock, report, files, shots, faults, chrome, probe, startup>>

\* the archived GET: send error or error_for_status, else the body is read
arch_send(s) ==
    /\ task[s].pc = "arch"
    /\ \E o \in {"neterr", "non2xx", "2xx"} :
        IF o = "2xx"
        THEN task' = [task EXCEPT ![s].pc = "arch_body"] /\ phase' = phase
        ELSE FetchErr(s, task[s])
    /\ UNCHANGED <<listing, seeds, lock, report, files, shots, faults, chrome, probe, startup>>

arch_body(s) ==
    /\ task[s].pc = "arch_body"
    /\ LET t == task[s] IN
       \E ok \in BOOLEAN :
        IF ok
        THEN Advance(s, fetched(t, t.eff, TRUE, Resource(t.url)), "fetched")
        ELSE FetchErr(s, t)
    /\ UNCHANGED <<listing, seeds, lock, report, files, shots, faults, chrome, probe, startup>>

----------------------------------------------------------------------------
(* persist and scan *)

\* save_bytes_safe(asset_path_for(final_url, ext), body); an error is logged
persist(s) ==
    /\ task[s].pc = "persist"
    /\ LET t == task[s]
           path == asset_path_for(t.eff, ext_or_bin(t.eff)) IN
       /\ \/ files' = files \cup {path} /\ faults' = faults
          \/ faults < MaxFaults /\ files' = files /\ faults' = faults + 1
       /\ Advance(s, [t EXCEPT !.log = Append(@, Ev("persist", t.eff, t.ctx))], "persist")
    /\ UNCHANGED <<listing, seeds, lock, report, shots, chrome, probe, startup>>

\* a block is written whatever was found
block_always(hits) == TRUE

\* `if hits.is_empty() { return Ok(()) }`: a block is written for findings only
block_wanted(hits) == hits # <<>>

\* analyze_bytes_with_rules up to info_file.lock().await
analyze_bytes_with_rules(s) ==
    /\ task[s].pc = "scan"
    /\ LET t == task[s]
           t1 == [t EXCEPT !.arch = FALSE, !.log = Append(@, Ev("scan", t.eff, t.ctx))]
           hits == IF is_probably_text(t.body) /\ t.body.utf8
                   THEN scan_patterns(t.body) ELSE <<>> IN
       IF ~block_wanted(hits)
       THEN Advance(s, t1, "scan")
       ELSE task' = [task EXCEPT ![s] = [t1 EXCEPT !.pc = "lock", !.hits = hits]]
            /\ phase' = phase
    /\ UNCHANGED <<listing, seeds, lock, report, files, shots, faults, chrome, probe, startup>>

\* the mutex is granted to every caller
lock_always(holder) == TRUE

\* tokio::sync::Mutex::lock: granted when nobody holds the mutex
lock_available(holder) == holder = NoUrl

report_lock(s) ==
    /\ task[s].pc = "lock"
    /\ lock_available(lock)
    /\ lock' = s
    /\ task' = [task EXCEPT ![s].pc = "write", ![s].wr = 0, ![s].blk = @ + 1]
    /\ UNCHANGED <<phase, listing, seeds, report, files, shots, faults, chrome, probe, startup>>

\* line i of the block in hand: the header "{url}" / "{url} (архив)", then one
\* line per finding
block_line(s, t, i) ==
    [by |-> s, blk |-> t.blk, url |-> t.eff, arch |-> t.arch, idx |-> i,
     hit |-> IF i = 0 THEN Hit("", "") ELSE t.hits[i]]

\* the guard is dropped after every line
guard_dropped_each_line(i, n) == TRUE

\* the guard outlives the function
guard_never_dropped(i, n) == FALSE

\* the guard is dropped when the function returns: after line i of a block of
\* n findings was written
guard_dropped(i, n) == i = n

\* one writeln! under the guard; a write error returns at once (`?`), which
\* drops the guard
report_write(s) ==
    /\ task[s].pc = "write"
    /\ LET t == task[s]
           stage == IF t.arch THEN "arc_open" ELSE "scan" IN
       \/ /\ report' = Append(report, block_line(s, t, t.wr))
          /\ faults' = faults
          /\ lock' = IF guard_dropped(t.wr, Len(t.hits)) THEN NoUrl ELSE lock
          /\ LET t1 == IF t.wr = 0
                       THEN [t EXCEPT !.log = Append(@, Ev(IF t.arch THEN "ablock" ELSE "block",
                                                           t.eff, t.ctx))]
                       ELSE t IN
             IF t.wr = Len(t.hits)
             THEN Advance(s, [t1 EXCEPT !.hits = <<>>], stage)
             ELSE task' = [task EXCEPT ![s] = [t1 EXCEPT !.wr = @ + 1]] /\ phase' = phase
       \/ /\ faults < MaxFaults
          /\ faults' = faults + 1
          /\ report' = report
          /\ lock' = NoUrl
          /\ Advance(s, [t EXCEPT !.hits = <<>>], stage)
    /\ UNCHANGED <<listing, seeds, files, shots, chrome, probe, startup>>

----------------------------------------------------------------------------
(* analyze_archive_file: the inspector runs on a blocking worker while the *)
(* URL task awaits it                                                      *)

\* name.rsplit('.').next().unwrap_or("bin").to_ascii_lowercase()
member_ext(name) == to_ascii_lowercase(name[Len(name)])

\* File::open(path) and, for zip, ZipArchive::new
archive_opens(t) ==
    /\ asset_path_for(t.eff, ext_or_bin(t.eff)) \in files
    /\ ext_or_bin(t.eff) = "zip" => t.body.valid

analyze_archive_file(s) ==
    /\ task[s].pc = "arc_open"
    /\ LET t == task[s]
           t1 == [t EXCEPT !.arch = TRUE, !.hits = <<>>, !.mi = 1,
                           !.log = Append(@, Ev("archive", t.eff, t.ctx))] IN
       IF archive_opens(t)
       THEN task' = [task EXCEPT ![s] = [t1 EXCEPT !.pc = "arc_member"]] /\ phase' = phase
       ELSE Advance(s, t1, "arc_open")
    /\ UNCHANGED <<listing, seeds, lock, report, files, shots, faults, chrome, probe, startup>>

\* the member the loop turns to after an entry that could not be read: zip
\* entries are found by index; the entries of a tar stream are read one
\* after the other and the iterator of the tar crate is exhausted after its
\* first error, so `continue` leaves the loop
after_entry_error(t) ==
    IF ext_or_bin(t.eff) = "zip" THEN t.mi + 1 ELSE Len(t.body.members) + 1

\* one turn of the member loop of analyze_zip / analyze_tar_like; after the
\* last member the worker returns and the task goes on with the hits
analyze_member(s) ==
    /\ task[s].pc = "arc_member"
    /\ LET t == task[s] IN
       IF t.mi > Len(t.body.members)
       THEN /\ IF ~block_wanted(t.hits)
               THEN Advance(s, t, "arc_open")
               ELSE task' = [task EXCEPT ![s].pc = "lock"] /\ phase' = phase
            /\ UNCHANGED <<files, faults>>
       ELSE LET m == t.body.members[t.mi]
                save_path == build_asset_path_from_parts(virt_url(t.eff, m.name),
                                                         member_ext(m.name))
                found == IF is_probably_text(m) /\ m.utf8 THEN scan_patterns(m) ELSE <<>>
            IN
            /\ phase' = phase
            /\ IF ~m.file
               THEN /\ task' = [task EXCEPT ![s].mi = @ + 1]
                    /\ UNCHANGED <<files, faults>>
               ELSE \/ \* the entry cannot be read: `continue`
                       /\ faults < MaxFaults
                       /\ faults' = faults + 1
                       /\ files' = files
                       /\ task' = [task EXCEPT ![s].mi = after_entry_error(t)]
                    \/ \* saved (an error is dropped) and scanned
                       /\ \/ files' = files \cup {save_path} /\ faults' = faults
                          \/ faults < MaxFaults /\ files' = files /\ faults' = faults + 1
                       /\ task' = [task EXCEPT ![s].mi = @ + 1, ![s].hits = @ \o found]
    /\ UNCHANGED <<listing, seeds, lock, report, shots, chrome, probe, startup>>

----------------------------------------------------------------------------
(* handle_html_links *)

\* the page's links plus {root}/robots.txt and {root}/sitemap.xml
child_urls(html, base_url) ==
    extract_links(html, base_url)
    \cup {root_child(r, n) : r \in root_of(base_url), n \in INTERESTING_NAMES}

handle_html_links(s) ==
    /\ task[s].pc = "links"
    /\ task' = [task EXCEPT ![s].pc = "child",
                            ![s].final_url = task[s].eff,
                            ![s].todo = child_urls(task[s].body, task[s].eff),
                            ![s].log = Append(@, Ev("links", task[s].eff, task[s].ctx))]
    /\ UNCHANGED <<phase, listing, seeds, lock, report, files, shots, faults, chrome, probe, startup>>

\* one turn of `for u in urls`, in the set's arbitrary order (`seen` never
\* rejects an element of a set): an ignored child is passed over, any other is
\* fetched; after the last one the function returns to the seed's steps
next_child(s) ==
    /\ task[s].pc = "child"
    /\ LET t == task[s] IN
       IF t.todo = {}
       THEN Advance(s, [t EXCEPT !.ctx = "seed", !.eff = t.final_url], "links")
       ELSE /\ \E u \in t.todo :
                 LET t1 == [t EXCEPT !.todo = @ \ {u}] IN
                 task' = [task EXCEPT ![s] =
                             IF should_ignore_path(u) THEN t1 ELSE issue_fetch(t1, u, "child")]
            /\ phase' = phase
    /\ UNCHANGED <<listing, seeds, lock, report, files, shots, faults, chrome, probe, startup>>

----------------------------------------------------------------------------
(* Screenshots: task::spawn and forget *)

spawn_screenshot(s) ==
    /\ task[s].pc = "shot"
    /\ LET t == task[s] IN
       /\ shots' = shots (+) SetToBag({[by |-> s, url |-> t.eff]})
       /\ Advance(s, [t EXCEPT !.log = Append(@, Ev("shot", t.eff, t.ctx))], "shot")
    /\ UNCHANGED <<listing, seeds, lock, report, files, faults, chrome, probe, startup>>

\* the JoinHandle of task::spawn is joined and an error of the screenshot
\* becomes the result of the URL task
screenshot_result_joined(j, ok) ==
    IF ok THEN task ELSE [task EXCEPT ![j.by].res = "err"]

\* the JoinHandle of task::spawn is dropped; an error is printed inside the
\* spawned task
screenshot_result_dropped(j, ok) == task

\* a spawned screenshot task runs to its end: the PNG is written, or an error
\* is logged
make_screenshot_task ==
    /\ \E j \in BagToSet(shots) :
        /\ shots' = shots (-) SetToBag({j})
        /\ \/ /\ files' = files \cup {screenshot_path(j.url)}
              /\ faults' = faults
              /\ task' = screenshot_result_dropped(j, TRUE)
           \/ /\ faults < MaxFaults
              /\ files' = files
              /\ faults' = faults + 1
              /\ task' = screenshot_result_dropped(j, FALSE)
    /\ UNCHANGED <<phase, listing, seeds, lock, report, chrome, probe, startup>>

----------------------------------------------------------------------------

Next ==
    \/ Paths_new
    \/ fetch_wayback_urls
    \/ write_out_txt
    \/ extract_subdomains
    \/ write_subdomains
    \/ create_report
    \/ run_scan_fan_out
    \/ \E s \in seeds : process_single_url(s)
    \/ \E s \in seeds : live_send(s)
    \/ \E s \in seeds : live_body(s)
    \/ \E s \in seeds : cdx_send(s)
    \/ \E s \in seeds : cdx_body(s)
    \/ \E s \in seeds : arch_send(s)
    \/ \E s \in seeds : arch_body(s)
    \/ \E s \in seeds : persist(s)
    \/ \E s \in seeds : analyze_bytes_with_rules(s)
    \/ \E s \in seeds : report_lock(s)
    \/ \E s \in seeds : report_write(s)
    \/ \E s \in seeds : analyze_archive_file(s)
    \/ \E s \in seeds : analyze_member(s)
    \/ \E s \in seeds : handle_html_links(s)
    \/ \E s \in seeds : next_child(s)
    \/ \E s \in seeds : spawn_screenshot(s)
    \/ make_screenshot_task

Spec == Init /\ [][Next]_vars

\* every enabled step is eventually taken: the runtime keeps polling ready
\* futures and every network call returns or fails
FairSpec == Spec /\ WF_vars(Next)

\* a scan of the wide site: every seed is fetched live, saved, sniffed and
\* photographed
WideNext ==
    \/ Paths_new
    \/ fetch_wayback_urls_of({WideListing})
    \/ write_out_txt
    \/ extract_subdomains
    \/ write_subdomains
    \/ create_report
    \/ run_scan_fan_out
    \/ \E s \in seeds : process_single_url(s)
    \/ \E s \in seeds : live_send(s)
    \/ \E s \in seeds : live_body(s)
    \/ \E s \in seeds : persist(s)
    \/ \E s \in seeds : analyze_bytes_with_rules(s)
    \/ \E s \in seeds : spawn_screenshot(s)
    \/ make_screenshot_task

WideSpec == Init /\ [][WideNext]_vars

\* the steps of the URL tasks and of run_scan itself
UrlNext == Next /\ BagCardinality(shots') >= BagCardinality(shots)

\* the URL tasks are polled whenever they are ready; no screenshot task need
\* ever make a step
FairUrlSpec == Spec /\ WF_vars(UrlNext)

----------------------------------------------------------------------------
(* make_screenshot_task on its blocking worker, one call at a time, and    *)
(* BrowserManager::get / invalidate with their two separate lock scopes.   *)

\* the URL the screenshot task of worker w was dispatched for
ShotUrl(w) == IF w = 1 THEN UrlA ELSE UrlB

\* error messages of new_tab, one for each way the substring tests can turn out
TabErrors == {"connection is closed", "WebSocket", "timeout"}

\* every error of new_tab is retried
retryable_any(msg) == TRUE

\* msg.contains("connection is closed") || msg.contains("WebSocket")
retryable(msg) == msg \in {"connection is closed", "WebSocket"}

JobStep(w, j) == chrome' = [chrome EXCEPT !.job[w] = j]

\* the closure returns: its Arc<Browser> is dropped
JobEnds(w, how) ==
    JobStep(w, [chrome.job[w] EXCEPT !.pc = how, !.browser = 0, !.failed = 0])

\* task::spawn + spawn_blocking: the closure starts with attempt 1; the tasks
\* are numbered in the order in which they start
screenshot_start(w) ==
    /\ chrome.job[w].pc = "idle"
    /\ \A v \in ShotWorkers : v < w => chrome.job[v].pc # "idle"
    /\ JobStep(w, [chrome.job[w] EXCEPT !.pc = "get_read", !.url = ShotUrl(w), !.attempt = 1])
    /\ UNCHANGED <<phase, listing, seeds, task, lock, report, files, shots, faults, probe, startup>>

\* get(), first lock scope: the cached instance is returned, or the lock is
\* released and a browser will be launched
get_cached(w) ==
    /\ chrome.job[w].pc = "get_read"
    /\ LET j == chrome.job[w] IN
       IF chrome.poisoned
       THEN JobEnds(w, "failed")
       ELSE IF chrome.slot # 0
       THEN JobStep(w, [j EXCEPT !.pc = "new_tab", !.browser = chrome.slot])
       ELSE JobStep(w, [j EXCEPT !.pc = "launch"])
    /\ UNCHANGED <<phase, listing, seeds, task, lock, report, files, shots, faults, probe, startup>>

\* get(), after the first lock scope: launch_browser() outside any lock
\* scope, then the second lock scope stores the fresh instance and returns it
launch_browser(w) ==
    /\ chrome.job[w].pc = "launch"
    /\ LET fresh == chrome.launched + 1 IN
       \/ /\ ~chrome.poisoned
          /\ chrome' = [chrome EXCEPT !.launched = fresh, !.slot = fresh,
                                      !.job[w].browser = fresh, !.job[w].pc = "new_tab"]
          /\ faults' = faults
       \/ /\ chrome.poisoned
          /\ JobEnds(w, "failed")
          /\ faults' = faults
       \/ /\ faults < MaxFaults
          /\ faults' = faults + 1
          /\ JobEnds(w, "failed")
    /\ UNCHANGED <<phase, listing, seeds, task, lock, report, files, shots, probe, startup>>

\* browser.new_tab(): a tab, or an error; a retryable error on attempt 1 leads
\* to `let _ = BROWSER_MANAGER.invalidate(); continue;`, any other error ends
\* the task
new_tab(w) ==
    /\ chrome.job[w].pc = "new_tab"
    /\ LET j == chrome.job[w]
           seen(r) == IF j.attempt = 1 THEN [j EXCEPT !.first = r] ELSE j IN
       \/ JobStep(w, [seen("ok") EXCEPT !.pc = "capture"])
       \/ /\ chrome.tab_errors < MaxTabErrors
          /\ \E msg \in TabErrors :
               IF retryable(msg) /\ j.attempt = 1
               THEN chrome' = [chrome EXCEPT
                       !.tab_errors = @ + 1,
                       !.slot = IF chrome.poisoned THEN @ ELSE 0,
                       !.invalidations = IF chrome.poisoned THEN @ ELSE @ + 1,
                       !.job[w] = [seen(msg) EXCEPT !.pc = "get_read", !.attempt = 2,
                                                    !.failed = j.browser, !.browser = 0]]
               ELSE chrome' = [chrome EXCEPT
                       !.tab_errors = @ + 1,
                       !.job[w] = [seen(msg) EXCEPT !.pc = "failed", !.browser = 0,
                                                    !.failed = 0]]
    /\ UNCHANGED <<phase, listing, seeds, task, lock, report, files, shots, faults, probe, startup>>

\* navigate_to, wait_until_navigated, capture_screenshot, then create_dir_all
\* and fs::write of "{name}.png": the file, or an error
capture_screenshot(w) ==
    /\ chrome.job[w].pc = "capture"
    /\ \/ /\ files' = files \cup {screenshot_path(chrome.job[w].url)}
          /\ faults' = faults
          /\ JobEnds(w, "done")
       \/ /\ faults < MaxFaults
          /\ faults' = faults + 1
          /\ files' = files
          /\ JobEnds(w, "failed")
    /\ UNCHANGED <<phase, listing, seeds, task, lock, report, shots, probe, startup>>

\* a thread panics while it holds the lock of the pool
mutex_poisoned ==
    /\ ~chrome.poisoned
    /\ faults < MaxFaults
    /\ \E w \in ShotWorkers : chrome.job[w].pc \notin {"idle", "done", "failed"}
    /\ chrome' = [chrome EXCEPT !.poisoned = TRUE]
    /\ faults' = faults + 1
    /\ UNCHANGED <<phase, listing, seeds, task, lock, report, files, shots, probe, startup>>

ShotNext ==
    \/ \E w \in ShotWorkers : screenshot_start(w)
    \/ \E w \in ShotWorkers : get_cached(w)
    \/ \E w \in ShotWorkers : launch_browser(w)
    \/ \E w \in ShotWorkers : new_tab(w)
    \/ \E w \in ShotWorkers : capture_screenshot(w)
    \/ mutex_poisoned

ShotSpec == Init /\ [][ShotNext]_vars

----------------------------------------------------------------------------
(* Strings, character by character.  A string is a sequence of             *)
(* characters; a character is the 1-tuple <<c>>, and the i-th hex digit of *)
(* the SHA-256 of a string u is the character <<"hex", i, u>>: two digests *)
(* agree in a digit only when they are digests of the same string.         *)

S(q) == [i \in DOMAIN q |-> <<q[i]>>]

\* the spelling of the words the program has as literals
Spell(w) ==
    CASE w = "html" -> <<"h", "t", "m", "l">>
      [] w = "htm" -> <<"h", "t", "m">>
      [] w = "shtml" -> <<"s", "h", "t", "m", "l">>
      [] w = "xhtml" -> <<"x", "h", "t", "m", "l">>
      [] w = "php" -> <<"p", "h", "p">>
      [] w = "asp" -> <<"a", "s", "p">>
      [] w = "aspx" -> <<"a", "s", "p", "x">>
      [] w = "jsp" -> <<"j", "s", "p">>
      [] w = "txt" -> <<"t", "x", "t">>
      [] w = "js" -> <<"j", "s">>
      [] w = "json" -> <<"j", "s", "o", "n">>
      [] w = "xml" -> <<"x", "m", "l">>
      [] w = "csv" -> <<"c", "s", "v">>
      [] w = "ini" -> <<"i", "n", "i">>
      [] w = "conf" -> <<"c", "o", "n", "f">>
      [] w = "config" -> <<"c", "o", "n", "f", "i", "g">>
      [] w = "env" -> <<"e", "n", "v">>
      [] w = "yaml" -> <<"y", "a", "m", "l">>
      [] w = "yml" -> <<"y", "m", "l">>
      [] w = "log" -> <<"l", "o", "g">>
      [] w = "bak" -> <<"b", "a", "k">>
      [] w = "old" -> <<"o", "l", "d">>
      [] w = "sql" -> <<"s", "q", "l">>
      [] w = "zip" -> <<"z", "i", "p">>
      [] w = "tar" -> <<"t", "a", "r">>
      [] w = "tgz" -> <<"t", "g", "z">>
      [] w = "gz" -> <<"g", "z">>
      [] w = "bz2" -> <<"b", "z", "2">>
      [] w = "xz" -> <<"x", "z">>
      [] w = "bin" -> <<"b", "i", "n">>
      [] w = "png" -> <<"p", "n", "g">>
      [] w = "unknown" -> <<"u", "n", "k", "n", "o", "w", "n">>
      [] w = "http" -> <<"h", "t", "t", "p">>
      [] w = "https" -> <<"h", "t", "t", "p", "s">>
      [] w = "assets" -> <<"a", "s", "s", "e", "t", "s">>
      [] w = "JSscripts" -> <<"J", "S", "s", "c", "r", "i", "p", "t", "s">>
      [] w = "screenshots" -> <<"s", "c", "r", "e", "e", "n", "s", "h", "o", "t", "s">>
      [] w = "mailto" -> <<"m", "a", "i", "l", "t", "o">>
      [] w = "javascript" -> <<"j", "a", "v", "a", "s", "c", "r", "i", "p", "t">>
      [] w = "data" -> <<"d", "a", "t", "a">>

Str(w) == S(Spell(w))

UPPER == <<"A", "B", "C", "D", "E", "F", "G", "H", "I", "J", "K", "L", "M", "N", "O", "P", "Q", "R", "S", "T", "U", "V", "W", "X", "Y", "Z">>
LOWER == <<"a", "b", "c", "d", "e", "f", "g", "h", "i", "j", "k", "l", "m", "n", "o", "p", "q", "r", "s", "t", "u", "v", "w", "x", "y", "z">>

Letters == {<<UPPER[k]>> : k \in 1..Len(UPPER)} \cup {<<LOWER[k]>> : k \in 1..Len(LOWER)}

Digits == {<<"0">>, <<"1">>, <<"2">>, <<"3">>, <<"4">>, <<"5">>, <<"6">>, <<"7">>, <<"8">>, <<"9">>}

\* char::to_ascii_lowercase
lower_char(c) ==
    IF \E k \in 1..Len(UPPER) : c = <<UPPER[k]>>
    THEN <<LOWER[CHOOSE k \in 1..Len(UPPER) : c = <<UPPER[k]>>]>>
    ELSE c

\* str::to_ascii_lowercase
to_ascii_lowercase_str(s) == [i \in DOMAIN s |-> lower_char(s[i])]

Take(s, n) == SubSeq(s, 1, Min(n, Len(s)))
Drop(s, n) == SubSeq(s, n + 1, Len(s))

\* str::find of any of the characters cs: the first index, 0 if none
Find(s, cs) ==
    LET I == {i \in 1..Len(s) : s[i] \in cs} IN
    IF I = {} THEN 0 ELSE CHOOSE i \in I : \A j \in I : i <= j

\* str::rfind: the last index, 0 if none
RFind(s, cs) ==
    LET I == {i \in 1..Len(s) : s[i] \in cs} IN
    IF I = {} THEN 0 ELSE CHOOSE i \in I : \A j \in I : i >= j

starts_with(s, p) == Len(s) >= Len(p) /\ Take(s, Len(p)) = p

\* str::replace / chars().map(): every character of cs becomes c
replace(s, cs, c) == [i \in DOMAIN s |-> IF s[i] \in cs THEN c ELSE s[i]]

\* str::split(c)
RECURSIVE split(_, _)
split(s, c) ==
    LET i == Find(s, {c}) IN
    IF i = 0 THEN <<s>> ELSE <<Take(s, i - 1)>> \o split(Drop(s, i), c)

\* the pieces joined with the separator c between them
RECURSIVE join_with(_, _)
join_with(ps, c) ==
    IF ps = <<>> THEN <<>>
    ELSE IF Len(ps) = 1 THEN ps[1]
    ELSE ps[1] \o <<c>> \o join_with(Tail(ps), c)

Whitespace == {<<" ">>, <<"\t">>, <<"\n">>}

\* str::trim
RECURSIVE trim_str(_)
trim_str(s) ==
    IF s # <<>> /\ s[1] \in Whitespace THEN trim_str(Tail(s))
    ELSE IF s # <<>> /\ s[Len(s)] \in Whitespace THEN trim_str(Take(s, Len(s) - 1))
    ELSE s

----------------------------------------------------------------------------
(* Url::parse, for strings without port, user info and percent-encoded     *)
(* dots.                                                                   *)

SLASH == <<"/">>
BACKSLASH == <<"\\">>

SPECIAL_SCHEMES == {Str("http"), Str("https")}

\* characters of a host name
HostChars == Letters \cup Digits \cup {<<".">>, <<"-">>}

\* the path percent-encode set, as far as it occurs
pct_encode(c) ==
    CASE c = <<" ">> -> S(<<"%", "2", "0">>)
      [] c = <<"\"">> -> S(<<"%", "2", "2">>)
      [] c = <<"<">> -> S(<<"%", "3", "C">>)
      [] c = <<">">> -> S(<<"%", "3", "E">>)
      [] OTHER -> <<c>>

RECURSIVE pct_encode_str(_)
pct_encode_str(s) == IF s = <<>> THEN <<>> ELSE pct_encode(s[1]) \o pct_encode_str(Tail(s))

\* the path state of the parser: "." and ".." segments are resolved, the
\* other segments are percent-encoded; segs are the segments still to read,
\* out the segments of the path so far
RECURSIVE path_state(_, _)
path_state(segs, out) ==
    IF segs = <<>> THEN out
    ELSE LET seg == segs[1]
             last == Len(segs) = 1
             popped == IF out = <<>> THEN out ELSE Take(out, Len(out) - 1) IN
         IF seg = S(<<".", ".">>)
         THEN path_state(Tail(segs), IF last THEN Append(popped, <<>>) ELSE popped)
         ELSE IF seg = S(<<".">>)
         THEN path_state(Tail(segs), IF last THEN Append(out, <<>>) ELSE out)
         ELSE path_state(Tail(segs), Append(out, pct_encode_str(seg)))

\* Url::path of a hierarchical URL whose text after the authority is raw
normalize_path(raw, special) ==
    LET r == IF special THEN replace(raw, {BACKSLASH}, SLASH) ELSE raw IN
    IF r = <<>>
    THEN IF special THEN <<SLASH>> ELSE <<>>
    ELSE <<SLASH>> \o join_with(path_state(Tail(split(r, SLASH)), <<>>), SLASH)

ParseError == [ok |-> FALSE, scheme |-> <<>>, host |-> <<>>, path |-> <<>>, tail |-> <<>>]

\* after "scheme:" of a special scheme: slashes, host, path, then query and
\* fragment
parse_special(scheme, rest) ==
    LET lead == Find(rest, {c \in {rest[i] : i \in 1..Len(rest)} : c \notin {SLASH, BACKSLASH}})
        r1 == IF lead = 0 THEN <<>> ELSE Drop(rest, lead - 1)
        e == Find(r1, {SLASH, BACKSLASH, <<"?">>, <<"#">>})
        host == to_ascii_lowercase_str(IF e = 0 THEN r1 ELSE Take(r1, e - 1))
        r2 == IF e = 0 THEN <<>> ELSE Drop(r1, e - 1)
        q == Find(r2, {<<"?">>, <<"#">>})
        raw == IF q = 0 THEN r2 ELSE Take(r2, q - 1) IN
    IF host = <<>> \/ \E i \in 1..Len(host) : host[i] \notin HostChars
    THEN ParseError
    ELSE [ok |-> TRUE, scheme |-> scheme, host |-> host,
          path |-> normalize_path(raw, TRUE),
          tail |-> IF q = 0 THEN <<>> ELSE Drop(r2, q - 1)]

\* after "scheme:" of any other scheme: "//" opens an authority, a single
\* '/' a path; anything else is an opaque path and the URL has no host
parse_other(scheme, rest) ==
    LET q == Find(rest, {<<"?">>, <<"#">>})
        body == IF q = 0 THEN rest ELSE Take(rest, q - 1)
        tail == IF q = 0 THEN <<>> ELSE Drop(rest, q - 1) IN
    IF starts_with(body, <<SLASH, SLASH>>)
    THEN LET r1 == Drop(body, 2)
             e == Find(r1, {SLASH})
             host == IF e = 0 THEN r1 ELSE Take(r1, e - 1) IN
         IF \E i \in 1..Len(host) : host[i] \notin HostChars
         THEN ParseError
         ELSE [ok |-> TRUE, scheme |-> scheme, host |-> host,
               path |-> normalize_path(IF e = 0 THEN <<>> ELSE Drop(r1, e - 1), FALSE),
               tail |-> tail]
    ELSE IF starts_with(body, <<SLASH>>)
    THEN [ok |-> TRUE, scheme |-> scheme, host |-> <<>>,
          path |-> normalize_path(body, FALSE), tail |-> tail]
    ELSE [ok |-> TRUE, scheme |-> scheme, host |-> <<>>, path |-> body, tail |-> tail]

\* Url::parse: the scheme is lowercased; without a scheme the string is a
\* relative reference and the parse fails
Url_parse(s) ==
    LET colon == Find(s, {<<":">>})
        scheme == to_ascii_lowercase_str(Take(s, colon - 1)) IN
    IF colon < 2 \/ \E i \in 1..(colon - 1) : s[i] \notin Letters
    THEN ParseError
    ELSE IF scheme \in SPECIAL_SCHEMES
    THEN parse_special(scheme, Drop(s, colon))
    ELSE parse_other(scheme, Drop(s, colon))

\* Url::to_string / as_str
Url_to_string(u) ==
    u.scheme \o <<<<":">>>>
        \o (IF u.host # <<>> \/ u.scheme \in SPECIAL_SCHEMES THEN <<SLASH, SLASH>> \o u.host ELSE <<>>)
        \o u.path \o u.tail

----------------------------------------------------------------------------
(* File names and paths, character by character.                           *)

HASH_LEN == 12      \* hex digits of the digest kept in a name
PATH_MAX == 40      \* characters of the URL path kept in a name
NAME_MAX == 100     \* characters of a name

\* &hex[..12]
short_str(url) == [i \in 1..HASH_LEN |-> <<"hex", i, url>>]

\* the characters sanitize_filename replaces by '_'
UNSAFE == {SLASH, BACKSLASH, <<":">>, <<"?">>, <<"*">>, <<"\"">>, <<"<">>, <<">">>, <<"|">>, <<" ">>}

\* sanitize_filename without the cut at NAME_MAX
sanitize_filename_uncut(url) ==
    LET parsed == Url_parse(url)
        host == IF parsed.ok /\ parsed.host # <<>> THEN parsed.host ELSE Str("unknown")
        path == Take(replace(IF parsed.ok THEN parsed.path ELSE <<SLASH>>, {SLASH}, <<"_">>),
                     PATH_MAX)
        base == replace(host \o path, UNSAFE, <<"_">>) IN
    base \o S(<<"_", "_">>) \o short_str(url)

\* sanitize_filename
sanitize_filename_str(url) == Take(sanitize_filename_uncut(url), NAME_MAX)

\* detect_ext
detect_ext_str(u) ==
    LET url == Url_parse(u)
        name == Drop(url.path, RFind(url.path, {SLASH}))
        dot == RFind(name, {<<".">>}) IN
    IF ~url.ok \/ dot = 0 THEN None ELSE Some(to_ascii_lowercase_str(Drop(name, dot)))

\* detect_ext(..).unwrap_or_else(|| "bin".to_string())
ext_or_bin_str(u) ==
    IF detect_ext_str(u) = None THEN Str("bin") ELSE CHOOSE e \in detect_ext_str(u) : TRUE

\* name.rsplit('.').next().unwrap_or("bin").to_ascii_lowercase()
member_ext_str(name) == to_ascii_lowercase_str(Drop(name, RFind(name, {<<".">>})))

\* format!("{base_url}!{name}")
virt_url_str(base_url, name) == base_url \o <<<<"!">>>> \o name

TEXT_EXTS_str == {Str(e) : e \in TEXT_EXTS}
ARCHIVE_EXTS_str == {Str(e) : e \in ARCHIVE_EXTS}

\* PathBuf::join: an absolute path replaces the one it is joined to
path_join(dir, p) ==
    IF starts_with(p, <<SLASH>>) THEN p
    ELSE IF dir = <<>> \/ dir[Len(dir)] = SLASH THEN dir \o p
    ELSE dir \o <<SLASH>> \o p

\* the workspace root, PathBuf::from(domain)
Workspace == S(<<"e", "x", ".", "t", "e", "s", "t">>)

assets_dir == path_join(Workspace, Str("assets"))
jsscripts_dir == path_join(Workspace, Str("JSscripts"))
screenshots_dir == path_join(Workspace, Str("screenshots"))

\* asset_path_for with every extension routed alike
asset_path_for_no_js(url, ext) ==
    LET safe == sanitize_filename_str(url)
        subdir == IF ext \in TEXT_EXTS_str \/ ext \in ARCHIVE_EXTS_str THEN ext ELSE Str("bin") IN
    path_join(path_join(assets_dir, subdir), safe \o <<<<".">>>> \o ext)

\* asset_path_for
asset_path_for_str(url, ext) ==
    LET safe == sanitize_filename_str(url)
        subdir == IF ext \in TEXT_EXTS_str \/ ext \in ARCHIVE_EXTS_str THEN ext ELSE Str("bin") IN
    IF ext = Str("js")
    THEN path_join(jsscripts_dir, safe \o S(<<".", "j", "s">>))
    ELSE path_join(path_join(assets_dir, subdir), safe \o <<<<".">>>> \o ext)

\* the member is stored under its own name, as an unpacking tool would
build_asset_path_by_name(url, ext) ==
    LET name == Drop(url, Find(url, {<<"!">>}))
        subdir == IF ext \in TEXT_EXTS_str \/ ext \in ARCHIVE_EXTS_str THEN ext ELSE Str("bin") IN
    path_join(path_join(assets_dir, subdir), name)

\* build_asset_path_from_parts
build_asset_path_from_parts_str(url, ext) ==
    LET safe == sanitize_filename_str(url)
        subdir == IF ext \in TEXT_EXTS_str \/ ext \in ARCHIVE_EXTS_str THEN ext ELSE Str("bin") IN
    path_join(path_join(assets_dir, subdir), safe \o <<<<".">>>> \o ext)

\* screenshots_dir.join(format!("{name}.png"))
screenshot_path_str(url) ==
    path_join(screenshots_dir, sanitize_filename_str(url) \o <<<<".">>>> \o Str("png"))

\* the components of a path as the file system resolves them: "" and "." are
\* skipped, ".." leaves the directory reached so far; up counts the steps
\* above the starting directory
RECURSIVE walk(_, _, _)
walk(comps, up, at) ==
    IF comps = <<>> THEN [up |-> up, at |-> at]
    ELSE IF comps[1] \in {<<>>, S(<<".">>)} THEN walk(Tail(comps), up, at)
    ELSE IF comps[1] = S(<<".", ".">>)
    THEN IF at = <<>> THEN walk(Tail(comps), up + 1, at)
         ELSE walk(Tail(comps), up, Take(at, Len(at) - 1))
    ELSE walk(Tail(comps), up, Append(at, comps[1]))

resolve(p) ==
    [abs |-> starts_with(p, <<SLASH>>)] @@ walk(split(p, SLASH), 0, <<>>)

\* p names a file below the directory dir
resolves_under(p, dir) ==
    LET a == resolve(p)
        d == resolve(dir) IN
    /\ a.abs = d.abs
    /\ a.up = d.up
    /\ Len(a.at) > Len(d.at)
    /\ Take(a.at, Len(d.at)) = d.at

----------------------------------------------------------------------------
(* Links, character by character.                                          *)

\* the prefixes normalize_url tests with starts_with
SKIP_PREFIXES ==
    {S(<<"#">>), Str("mailto") \o S(<<":">>), Str("javascript") \o S(<<":">>),
     Str("data") \o S(<<":">>)}

\* Url::join of a reference that is no absolute URL: "//host..." takes the
\* scheme of the base, "/path" its scheme and host, "?query" its path too,
\* anything else replaces the last segment of the base's path
url_join_str(base, s) ==
    LET q == Find(s, {<<"?">>, <<"#">>})
        ref == IF q = 0 THEN s ELSE Take(s, q - 1)
        tail == IF q = 0 THEN <<>> ELSE Drop(s, q - 1)
        special == base.scheme \in SPECIAL_SCHEMES
        colon == Find(s, {<<":">>}) IN
    IF colon >= 2 /\ \A i \in 1..(colon - 1) : s[i] \in Letters
    THEN Url_parse(s)
    ELSE IF base.host = <<>> /\ ~starts_with(base.path, <<SLASH>>)
    THEN ParseError
    ELSE IF starts_with(s, <<SLASH, SLASH>>)
    THEN Url_parse(base.scheme \o S(<<":">>) \o s)
    ELSE IF starts_with(s, <<SLASH>>)
    THEN [base EXCEPT !.path = normalize_path(ref, special), !.tail = tail]
    ELSE IF ref = <<>>
    THEN [base EXCEPT !.tail = tail]
    ELSE [base EXCEPT
            !.path = normalize_path(Take(base.path, RFind(base.path, {SLASH})) \o ref, special),
            !.tail = tail]

\* normalize_url
normalize_url_str(base, raw) ==
    LET s == trim_str(raw)
        abs == Url_parse(s)
        j == url_join_str(base, s) IN
    IF s = <<>> THEN None
    ELSE IF \E p \in SKIP_PREFIXES : starts_with(s, p) THEN None
    ELSE IF abs.ok THEN Some(Url_to_string(abs))
    ELSE IF j.ok THEN Some(Url_to_string(j))
    ELSE None

\* extract_links: the values of the href attributes, then those of the src
\* attributes, each normalized, into a HashSet
extract_links_str(hrefs, srcs, base_url) ==
    LET base == Url_parse(base_url) IN
    IF ~base.ok
    THEN {}
    ELSE UNION {normalize_url_str(base, hrefs[i]) : i \in 1..Len(hrefs)}
         \cup UNION {normalize_url_str(base, srcs[i]) : i \in 1..Len(srcs)}

----------------------------------------------------------------------------
(* Byte buffers.  A buffer is a sequence of runs: `n` bytes of value `b`.  *)

Run(b, n) == [b |-> b, n |-> n]

RECURSIVE buf_len(_)
buf_len(data) == IF data = <<>> THEN 0 ELSE data[1].n + buf_len(Tail(data))

\* the test of the loop body: the byte counts as weird
weird_byte(b) == ~(b = 10 \/ b = 13 \/ b = 9) /\ ~(b >= 32 /\ b <= 126)

\* the loop `for &b in &data[..sample_len]`: the value of weird after the
\* first `left` bytes of data
RECURSIVE count_weird(_, _)
count_weird(data, left) ==
    IF data = <<>> \/ left = 0 THEN 0
    ELSE LET k == Min(data[1].n, left) IN
         (IF weird_byte(data[1].b) THEN k ELSE 0) + count_weird(Tail(data), left - k)

\* is_probably_text with `<=` for `<`
is_probably_text_le(data) ==
    IF buf_len(data) = 0 THEN FALSE
    ELSE LET sample_len == Min(buf_len(data), SAMPLE_LEN) IN
         count_weird(data, sample_len) * 10 <= sample_len

\* is_probably_text, byte by byte
is_probably_text_bytes(data) ==
    IF buf_len(data) = 0 THEN FALSE
    ELSE LET sample_len == Min(buf_len(data), SAMPLE_LEN) IN
         count_weird(data, sample_len) * 10 < sample_len

----------------------------------------------------------------------------
(* The report server's path of a request, character by character.          *)

\* str::find of a pattern: the first index where pat starts, 0 if none
find_str(s, pat) ==
    LET I == {i \in 1..(Len(s) - Len(pat) + 1) : SubSeq(s, i, i + Len(pat) - 1) = pat} IN
    IF I = {} THEN 0 ELSE CHOOSE i \in I : \A j \in I : i <= j

\* split(c).next(): the part before the first c
before(s, c) == LET i == Find(s, {c}) IN IF i = 0 THEN s ELSE Take(s, i - 1)

RECURSIVE trim_start_matches(_, _)
trim_start_matches(s, c) ==
    IF s # <<>> /\ s[1] = c THEN trim_start_matches(Tail(s), c) ELSE s

UP == S(<<".", ".", "/">>)
SLASH_UP == <<SLASH>> \o UP

\* while let Some(pos) = req_path.find("/../") { replace_range(..) }
RECURSIVE collapse(_)
collapse(req_path) ==
    LET pos == find_str(req_path, SLASH_UP) IN
    IF pos = 0 THEN req_path
    ELSE LET prev == RFind(Take(req_path, pos - 1), {SLASH}) IN
         IF prev # 0 THEN collapse(Take(req_path, prev - 1) \o Drop(req_path, pos + 3))
         ELSE collapse(Drop(req_path, pos + 3))

\* while rest.starts_with("../") { rest = &rest[3..] }
RECURSIVE strip_ups(_)
strip_ups(rest) == IF starts_with(rest, UP) THEN strip_ups(Drop(rest, 3)) ELSE rest

\* the served root and its parent
out_dir == path_join(Workspace, S(<<"o", "u", "t">>))
parent == Workspace

\* the request path after the query, the fragment and the leading '/' are
\* cut, index.html is added and "/../" is collapsed
server_req_path(url) ==
    LET raw == before(before(url, <<"?">>), <<"#">>)
        trimmed == trim_start_matches(raw, SLASH)
        named == IF trimmed = <<>> \/ trimmed[Len(trimmed)] = SLASH
                 THEN trimmed \o S(<<"i", "n", "d", "e", "x", ".", "h", "t", "m", "l">>)
                 ELSE trimmed IN
    collapse(named)

\* fs_path of a request
server_fs_path(url) ==
    LET req_path == server_req_path(url) IN
    IF starts_with(req_path, UP) THEN path_join(parent, strip_ups(req_path))
    ELSE path_join(out_dir, req_path)

----------------------------------------------------------------------------
(* The functions applied to inputs: one URL string, one archive member, or *)
(* the attribute values of one page.                                       *)

MaxPath == 3        \* characters of a freely chosen URL path
MaxName == 3        \* characters of a freely chosen archive member name
MaxAttrs == 2       \* href and src values of a page
MaxRuns == 2        \* runs of equal bytes in a buffer
MaxReq == 5         \* characters of a request path after its first '/'

\* all strings of at most n characters of A
RECURSIVE Words(_, _)
Words(A, n) ==
    IF n = 0 THEN {<<>>}
    ELSE LET W == Words(A, n - 1) IN W \cup {Append(w, c) : w \in W, c \in A}

Rep(c, n) == [i \in 1..n |-> <<c>>]

PathAlphabet == {<<"a">>, <<".">>, SLASH, <<"!">>, <<"%">>}
NameAlphabet == {<<"a">>, <<".">>, SLASH}

HostEx == S(<<"e", "x", ".", "t", "e", "s", "t">>)
LongHost == Rep("h", 60)
Hosts == {HostEx, LongHost}

ArchivePath == S(<<"/", "c", ".", "z", "i", "p">>)
LongArchivePath == <<SLASH>> \o Rep("d", 36) \o S(<<".", "t", "g", "z">>)

MemberNames ==
    (Words(NameAlphabet, MaxName) \ {<<>>})
        \cup {S(<<"k", ".", "e", "n", "v">>), S(<<"K", ".", "E", "N", "V">>),
              S(<<"a", ".", "t", "x", "t">>), S(<<"b", ".", "t", "x", "t">>),
              S(<<"a", ".", "j", "s">>)}

Paths ==
    {<<>>}
        \cup {<<SLASH>> \o w : w \in Words(PathAlphabet, MaxPath)}
        \cup {S(<<"/", "a", ".", "j", "s">>), S(<<"/", "a", ".", "J", "S">>),
              S(<<"/", "a", ".", "t", "x", "t">>), S(<<"/", "A", ".", "E", "n", "v">>),
              S(<<"/", "a", ".", "t", "a", "r", ".", "g", "z">>),
              S(<<"/", "a", " ", "b", ".", "x", "z">>),
              ArchivePath, LongArchivePath}
        \cup {virt_url_str(ArchivePath, m) : m \in MemberNames}

HttpUrls == {Str("http") \o S(<<":", "/", "/">>) \o h \o p : h \in Hosts, p \in Paths}

\* lines of the listing that are no absolute URL
NoUrls == {<<>>, S(<<"a">>), S(<<"/", "/", "a", "/", "b", ".", "j", "s">>)}

Urls == HttpUrls \cup NoUrls

ArchiveUrls == {Str("http") \o S(<<":", "/", "/">>) \o h \o p :
                    h \in Hosts, p \in {ArchivePath, LongArchivePath}}

BaseUrl == Str("http") \o S(<<":", "/", "/">>) \o HostEx \o S(<<"/", "d", "/", "p">>)

AttrValues ==
    {<<>>, S(<<" ">>), S(<<"#", "t">>), S(<<" ", "#", "t", "\n">>),
     Str("mailto") \o S(<<":", "x", "@", "y">>),
     S(<<"M", "A", "I", "L", "T", "O", ":", "x", "@", "y">>),
     S(<<" ">>) \o Str("mailto") \o S(<<":", "x">>),
     Str("javascript") \o S(<<":", "f">>),
     S(<<"J", "a", "v", "a", "S", "c", "r", "i", "p", "t", ":", "f">>),
     Str("data") \o S(<<":", "x">>),
     Str("http") \o S(<<":", "/", "/">>) \o HostEx \o S(<<"/", "a">>),
     S(<<"H", "T", "T", "P", ":", "/", "/">>) \o HostEx \o S(<<"/", "a">>),
     Str("http") \o S(<<":", "/", "/">>),
     S(<<"a">>), S(<<" ", "a", " ">>), S(<<".", ".", "/", "a">>), S(<<"/", "b", "#", "t">>),
     S(<<"/", "/", "o", ".", "t", "/", "x">>), S(<<"?", "q">>)}

AttrLists == UNION {[1..n -> AttrValues] : n \in 0..MaxAttrs}

\* tab, newline, carriage return, and the bytes at both ends of 0x20..0x7E
ByteValues == {9, 10, 13, 31, 32, 126, 127}
RunLengths == {1, 9, 204, SAMPLE_LEN}
Buffers ==
    UNION {[1..n -> {Run(b, k) : b \in ByteValues, k \in RunLengths}] : n \in 0..MaxRuns}

RequestAlphabet == {<<"a">>, <<".">>, SLASH, <<"?">>}
Requests ==
    {<<SLASH>> \o w : w \in Words(RequestAlphabet, MaxReq)}
        \cup {S(<<"/", "a", "/", ".", ".", "/", "/", "x">>),
              S(<<"/", "a", "/", "b", "/", ".", ".", "/", ".", ".", "/", "x">>),
              S(<<"/", "a", "#", "/", ".", ".", "/", "x">>)}

\* a URL as the pipeline names its files
probe_url ==
    /\ probe = NoProbe
    /\ \E u \in Urls :
        probe' = [fn |-> "url", url |-> u,
                  ext |-> ext_or_bin_str(u),
                  safe |-> sanitize_filename_str(u),
                  again |-> sanitize_filename_str(u),
                  path |-> asset_path_for_str(u, ext_or_bin_str(u)),
                  shot |-> screenshot_path_str(u)]
    /\ UNCHANGED <<phase, listing, seeds, task, lock, report, files, shots, faults, chrome, startup>>

\* a member of an archive as analyze_zip / analyze_tar_like name its file
probe_member ==
    /\ probe = NoProbe
    /\ \E a \in ArchiveUrls, m \in MemberNames :
        LET virt == virt_url_str(a, m) IN
        probe' = [fn |-> "member", url |-> a, name |-> m, virt |-> virt,
                  ext |-> member_ext_str(m),
                  safe |-> sanitize_filename_str(virt),
                  path |-> build_asset_path_from_parts_str(virt, member_ext_str(m))]
    /\ UNCHANGED <<phase, listing, seeds, task, lock, report, files, shots, faults, chrome, startup>>

\* the links of a page
probe_links ==
    /\ probe = NoProbe
    /\ \E hrefs \in AttrLists, srcs \in {<<>>} \cup [1..1 -> AttrValues] :
        probe' = [fn |-> "links", hrefs |-> hrefs, srcs |-> srcs,
                  out |-> extract_links_str(hrefs, srcs, BaseUrl)]
    /\ UNCHANGED <<phase, listing, seeds, task, lock, report, files, shots, faults, chrome, startup>>

\* the text sniff of a buffer
probe_sniff ==
    /\ probe = NoProbe
    /\ \E data \in Buffers :
        probe' = [fn |-> "sniff", data |-> data, out |-> is_probably_text_bytes(data)]
    /\ UNCHANGED <<phase, listing, seeds, task, lock, report, files, shots, faults, chrome, startup>>

\* one request to the report server
probe_request ==
    /\ probe = NoProbe
    /\ \E url \in Requests :
        probe' = [fn |-> "request", url |-> url, req_path |-> server_req_path(url),
                  fs_path |-> server_fs_path(url)]
    /\ UNCHANGED <<phase, listing, seeds, task, lock, report, files, shots, faults, chrome, startup>>

FnNext == probe_url \/ probe_member \/ probe_links \/ probe_sniff \/ probe_request

FnSpec == Init /\ [][FnNext]_vars

----------------------------------------------------------------------------
(* Properties.  Helpers over the report and over the step log of a task.   *)

Lines == 1..Len(report)

SameBlock(a, b) == a.by = b.by /\ a.blk = b.blk

\* every line directly follows the previous line of its own block, and a
\* header is the first line of its block
BlocksContiguous ==
    \A i \in Lines :
        LET l == report[i] IN
        IF l.idx = 0
        THEN \A j \in 1..(i - 1) : ~SameBlock(report[j], l)
        ELSE i > 1 /\ SameBlock(report[i - 1], l) /\ report[i - 1].idx = l.idx - 1

Tasks == DOMAIN task

EvIdx(L, what, ctx) == {i \in 1..Len(L) : L[i].what = what /\ L[i].ctx = ctx}

CtxIdx(L, ctx) == {i \in 1..Len(L) : L[i].ctx = ctx}

Rank(what) ==
    CASE what = "fetch" -> 0
      [] what \in {"fetched", "fetch_err"} -> 1
      [] what = "persist" -> 2
      [] what = "scan" -> 3
      [] what = "block" -> 4
      [] what = "archive" -> 5
      [] what = "ablock" -> 6
      [] what = "links" -> 7
      [] what = "shot" -> 8

RequestPcs == {"live", "live_body", "cdx", "cdx_body", "arch", "arch_body"}

\* the URL inside the archive wrappers, without a member name
Innermost(u) == [u EXCEPT !.wraps = <<>>, !.bang = <<>>]

\* the innermost URL a path was derived from
PathOrigin(f) == Innermost(f.safe.short[2])

----------------------------------------------------------------------------
\* C1: a report block (header line plus its finding lines) is written under the
\* mutex guard and is contiguous in sensitive_info.txt: lines of two blocks
\* never interleave, whatever URL tasks write concurrently.
C1_BlockAtomic ==
    /\ BlocksContiguous
    /\ \A s \in Tasks : task[s].pc = "write" => lock = s

\* one task is in the middle of its block while another waits for the mutex
C1_Witness ==
    \E s1 \in Tasks, s2 \in Tasks :
        /\ s1 # s2
        /\ task[s1].pc = "write" /\ task[s1].wr >= 1
        /\ task[s2].pc = "lock"
        /\ report # <<>>

----------------------------------------------------------------------------
\* C2 (as stated): all lines the report holds for one fetched URL, the direct
\* block and the archive block, are contiguous: no line of another URL lies
\* between them.
C2_UrlLinesContiguous ==
    \A i \in Lines, j \in Lines :
        (i < j /\ report[i].by = report[j].by /\ report[i].url = report[j].url)
        => \A k \in i..j : report[k].by = report[i].by /\ report[k].url = report[i].url

\* C2 (amended): for one fetched URL the direct block and the archive block are
\* each contiguous and the direct block comes first; the mutex is released
\* between the two, so blocks of other URLs may lie between them.
C2_BlocksOrdered ==
    /\ \A i \in Lines, j \in Lines :
        (report[i].by = report[j].by /\ report[i].url = report[j].url
            /\ ~report[i].arch /\ report[j].arch) => i < j
    /\ \A i \in Lines, j \in Lines :
        (i < j /\ report[i].by = report[j].by /\ report[i].url = report[j].url
            /\ report[i].arch = report[j].arch)
        => \A k \in i..j : /\ report[k].by = report[i].by
                           /\ report[k].url = report[i].url
                           /\ report[k].arch = report[i].arch

\* another task's block lies between the direct and the archive block of a URL
C2_Witness ==
    \E i \in Lines, k \in Lines, j \in Lines :
        /\ i < k /\ k < j
        /\ report[i].by = report[j].by /\ report[i].url = report[j].url
        /\ ~report[i].arch /\ report[j].arch
        /\ report[k].by # report[i].by

----------------------------------------------------------------------------
\* C3: the number of URL tasks in flight is min(4, seeds not yet finished): never
\* more than 4, and a finished task's slot is refilled at once; each task has
\* one request outstanding at a time, so at most 4 requests are outstanding.
C3_ConcurrencyCap ==
    /\ Cardinality(InFlight(task))
         = Min(Concurrency, Cardinality({n \in Tasks : task[n].pc # "done"}))
    /\ Cardinality({n \in Tasks : task[n].pc \in RequestPcs}) <= Concurrency

\* a slot was freed and refilled: four tasks in flight, three of them waiting for
\* a response, and one seed finished
C3_Witness ==
    /\ Cardinality(InFlight(task)) = Concurrency
    /\ Cardinality({n \in Tasks : task[n].pc \in RequestPcs}) >= 3
    /\ \E n \in Tasks : task[n].pc = "done"
    /\ Cardinality(seeds) > Concurrency

----------------------------------------------------------------------------
\* C4: once start-up has succeeded, no failure inside a URL task stops the run:
\* every finished seed's process_single_url returned success, and the fan-out
\* always runs to its end (every seed started and finished, run_scan returns).
C4_RunCompletes ==
    /\ [](\A n \in Tasks : task[n].pc = "done" => task[n].res = "ok")
    /\ ((phase = "fanout") ~>
            (phase = "done" /\ \A n \in seeds : task[n].pc = "done" /\ task[n].res = "ok"))

\* the run is over although one seed's fetch failed and an I/O error occurred,
\* and another seed was handled to its screenshot
C4_Witness ==
    /\ phase = "done"
    /\ faults > 0
    /\ \E n \in seeds, m \in seeds :
        /\ n # m
        /\ EvIdx(task[n].log, "fetch_err", "seed") # {}
        /\ EvIdx(task[m].log, "shot", "seed") # {}

----------------------------------------------------------------------------
\* C5 (as stated): whenever the live attempt ends without delivering the
\* resource (send error, timeout, non-2xx status, or an error while reading the
\* body), the fetcher goes on with the CDX query.
C5_LiveFailureFallsBack ==
    [][\A s \in Tasks :
          (s \in DOMAIN task' /\ task[s].pc \in {"live", "live_body"}
              /\ task'[s].pc \notin {"live", "live_body"})
          => (task'[s].pc = "cdx" \/ EvIdx(task'[s].log, "fetched", task[s].ctx)
                                        # EvIdx(task[s].log, "fetched", task[s].ctx))]_vars

----------------------------------------------------------------------------
\* C6: after a successful fetch either the archive flag is false and the
\* effective URL is the original URL, or the flag is true and the effective URL
\* is the archive URL built from the original URL and the string in row 1,
\* column 0 of the CDX reply.  The effective URL is what the report headers
\* carry, what file names are derived from and what the page's links are resolved
\* against.
C6_FetchResult ==
    /\ \A s \in Tasks :
        LET t == task[s] IN
        /\ (\/ t.pc \in {"persist", "scan", "lock", "write", "arc_open", "arc_member", "links"}
            \/ (t.pc = "shot" /\ (t.ctx = "child" \/ t.final_url = NoUrl)))
           => \/ ~t.arc /\ t.eff = t.url
              \/ /\ t.arc
                 /\ t.reply.json
                 /\ Len(t.reply.rows) >= 2
                 /\ Len(t.reply.rows[2]) >= 1
                 /\ t.reply.rows[2][1].str
                 /\ t.eff = archived_url(t.reply.rows[2][1].v, t.url)
                 /\ t.eff # t.url
        /\ t.pc = "child" => t.todo \subseteq child_urls(Resource(s), t.final_url)
    /\ \A i \in Lines :
        \E k \in 1..Len(task[report[i].by].log) :
            LET e == task[report[i].by].log[k] IN
            e.what = "fetched" /\ e.url = report[i].url
    /\ \A f \in files :
        \E s \in Tasks : \E k \in 1..Len(task[s].log) :
            /\ task[s].log[k].what = "fetched"
            /\ task[s].log[k].url = [f.safe.short[2] EXCEPT !.bang = <<>>]

\* a seed was fetched from the archive: its block is headed by the archive URL
\* and its links are being followed from there
C6_Witness ==
    \E s \in Tasks :
        /\ task[s].pc = "child"
        /\ task[s].final_url = archived_url("t1", s)
        /\ \E u \in task[s].todo : u.wraps = <<"t1">>
        /\ \E i \in Lines : report[i].by = s /\ report[i].url = archived_url("t1", s)
        /\ asset_path_for(archived_url("t1", s), ext_or_bin(s)) \in files

----------------------------------------------------------------------------
\* C7: a seed that should_ignore_path rejects finishes with success without any
\* request; a seed whose fetch fails finishes with success having persisted no
\* file, written no report line, fetched no child and dispatched no screenshot.
NoTrace(s) ==
    /\ \A i \in Lines : report[i].by # s
    /\ \A j \in BagToSet(shots) : j.by # s
    /\ \A f \in files : PathOrigin(f) # s

C7_SkippedLeaveNoTrace ==
    \A s \in Tasks :
        LET t == task[s] IN
        /\ (should_ignore_path(s) /\ t.pc \notin {"idle", "start"})
           => (t.pc = "done" /\ t.res = "ok" /\ t.log = <<>> /\ NoTrace(s))
        /\ (Len(t.log) >= 2 /\ t.log[2].what = "fetch_err")
           => (t.pc = "done" /\ t.res = "ok" /\ Len(t.log) = 2 /\ NoTrace(s))

\* an ignored seed and a seed whose fetch failed have both finished
C7_Witness ==
    \E s1 \in Tasks, s2 \in Tasks :
        /\ should_ignore_path(s1) /\ task[s1].pc = "done"
        /\ task[s2].pc = "done" /\ Len(task[s2].log) = 2
        /\ task[s2].log[2].what = "fetch_err"

----------------------------------------------------------------------------
\* C8: a URL task handles its work strictly in order: the seed is persisted, then
\* scanned (its block written), then inspected as an archive (its archive block
\* written), all before any child is fetched; each child is fetched, persisted,
\* scanned, inspected and its screenshot dispatched before the next child is
\* fetched; the seed's screenshot is dispatched after the last child.
C8_StepOrder ==
    \A s \in Tasks :
        LET L == task[s].log
            N == 1..Len(L)
            Start(c) == CHOOSE k \in 1..c : /\ L[k].what = "fetch" /\ L[k].ctx = L[c].ctx
                                            /\ \A m \in (k + 1)..c :
                                                  ~(L[m].what = "fetch" /\ L[m].ctx = L[c].ctx)
        IN
        \* the seed's own steps come in the order of the pipeline
        /\ \A i \in CtxIdx(L, "seed"), j \in CtxIdx(L, "seed") :
              i < j => Rank(L[i].what) < Rank(L[j].what)
        \* the steps of one fetched resource: in order, none of the first left out
        /\ \A c \in N :
              /\ \E k \in 1..c : L[k].what = "fetch" /\ L[k].ctx = L[c].ctx
              /\ \A m \in 0..3 : m < Rank(L[c].what) =>
                    \E k \in Start(c)..(c - 1) : Rank(L[k].what) = m /\ L[k].ctx = L[c].ctx
              /\ L[c].ctx = "child" =>
                    \A k \in Start(c)..(c - 1) :
                        L[k].ctx = "child" /\ Rank(L[k].what) < Rank(L[c].what)
              /\ (Rank(L[c].what) >= 2 /\ L[c].ctx = "child") =>
                    L[c].url = L[Start(c) + 1].url
        \* after a failed fetch nothing more is done with that resource
        /\ \A c \in N : (L[c].what = "fetch_err" /\ c < Len(L)) =>
              (L[c].ctx = "child" /\ L[c + 1].what \in {"fetch", "shot"}
                  /\ (L[c + 1].what = "shot" => L[c + 1].ctx = "seed"))
        \* children lie between the seed's link step and the seed's screenshot
        /\ \A c \in CtxIdx(L, "child") :
              /\ \E k \in EvIdx(L, "links", "seed") : k < c
              /\ \A k \in EvIdx(L, "shot", "seed") : c < k
        \* a child is fetched only when the child before it is finished
        /\ \A c \in EvIdx(L, "fetch", "child") :
              L[c - 1].ctx = "child" => L[c - 1].what \in {"fetch_err", "shot"}
        \* a finished task ends with the failed fetch or with the seed's screenshot
        /\ (task[s].pc = "done" /\ L # <<>>) =>
              /\ L[Len(L)].ctx = "seed" \/ Len(L) = 2
              /\ L[Len(L)].what \in {"fetch_err", "shot"}
              /\ L[Len(L)].what = "fetch_err" => Len(L) = 2
        \* report headers are the blocks the log records
        /\ \A i \in Lines : (report[i].by = s /\ report[i].idx = 0) =>
              \E k \in N : /\ L[k].what = (IF report[i].arch THEN "ablock" ELSE "block")
                           /\ L[k].url = report[i].url

\* a finished task that wrote the seed's block, fetched two children or more,
\* wrote a child's block and ended with the seed's screenshot
C8_Witness ==
    \E s \in Tasks :
        LET L == task[s].log IN
        /\ task[s].pc = "done"
        /\ EvIdx(L, "block", "seed") # {}
        /\ EvIdx(L, "block", "child") # {}
        /\ Cardinality(EvIdx(L, "fetch", "child")) >= 2
        /\ EvIdx(L, "shot", "child") # {}
        /\ L[Len(L)].what = "shot" /\ L[Len(L)].ctx = "seed"

----------------------------------------------------------------------------
\* C9: links are followed exactly one level: only the seed's links are extracted,
\* a child's never, so a task fetches the seed, the distinct links of the seed's
\* page and the two well-known root URLs at most, each child once, and ends even
\* when pages link to each other in a cycle.
C9_Inv ==
    \A s \in Tasks :
        LET L == task[s].log
            lk == {i \in 1..Len(L) : L[i].what = "links"}
            base == IF lk = {} THEN NoUrl ELSE L[CHOOSE i \in lk : TRUE].url
            kids == EvIdx(L, "fetch", "child")
        IN
        /\ Cardinality(lk) <= 1
        /\ \A i \in lk : L[i].ctx = "seed"
        /\ Cardinality({i \in 1..Len(L) : L[i].what = "fetch"})
              <= 1 + Cardinality(extract_links(Resource(s), base)) + 2
        /\ \A i \in kids : L[i].url \in child_urls(Resource(s), base)
        /\ \A i \in kids, j \in kids : L[i].url = L[j].url => i = j

C9_DepthOne ==
    /\ []C9_Inv
    /\ ((phase = "fanout" /\ UrlA \in seeds) ~> (phase = "done"))

\* the seed page links to a page that links back, and the task is finished with
\* the linked page fetched as a child
C9_Witness ==
    \E s \in Tasks :
        LET L == task[s].log IN
        /\ task[s].pc = "done"
        /\ \E i \in EvIdx(L, "fetched", "child") :
              /\ is_html_ext(ext_or_bin(L[i].url))
              /\ extract_links(Resource(L[i].url), L[i].url) # {}
              /\ \E u \in extract_links(Resource(L[i].url), L[i].url) : Innermost(u) = s

----------------------------------------------------------------------------
\* C10: pages whose href/src values are all skip-worthy
OnlySkipWorthy(html) ==
    /\ html.hrefs # <<>>
    /\ \A i \in 1..Len(html.hrefs) : trim(html.hrefs[i]).kind \in SkipKinds
    /\ \A i \in 1..Len(html.srcs) : trim(html.srcs[i]).kind \in SkipKinds

\* C10 (as stated): for an HTML seed page whose only href/src values are mailto:,
\* javascript:, fragment or data: values, the task fetches no child and
\* dispatches no screenshot but the seed's.
C10_NoChildFetches ==
    \A s \in Tasks :
        LET L == task[s].log IN
        (is_html_ext(ext_or_bin(s)) /\ OnlySkipWorthy(Resource(s))) =>
            /\ EvIdx(L, "fetch", "child") = {}
            /\ {i \in 1..Len(L) : L[i].what = "shot"} \subseteq EvIdx(L, "shot", "seed")

\* C10 (amended): for such a page the task fetches no child other than
\* {root}/robots.txt and {root}/sitemap.xml of the seed's effective URL, fetches
\* both of these, and dispatches no screenshot but the seed's and one for each of
\* the two that was fetched successfully.
C10_OnlyRootChildren ==
    \A s \in Tasks :
        LET L == task[s].log
            lk == EvIdx(L, "links", "seed")
            wellknown == {root_child(r, n) : r \in UNION {root_of(L[i].url) : i \in lk},
                                            n \in INTERESTING_NAMES}
        IN
        (is_html_ext(ext_or_bin(s)) /\ OnlySkipWorthy(Resource(s))) =>
            /\ \A i \in EvIdx(L, "fetch", "child") : L[i].url \in wellknown
            /\ \A i \in EvIdx(L, "shot", "child") :
                  \E k \in EvIdx(L, "fetched", "child") :
                      k < i /\ L[k].url = L[i].url /\ Innermost(L[i].url) \in wellknown
            /\ Cardinality(EvIdx(L, "shot", "seed")) <= 1
            /\ (task[s].pc = "done" /\ lk # {}) =>
                  /\ \A w \in wellknown :
                        ~should_ignore_path(w) => \E i \in EvIdx(L, "fetch", "child") : L[i].url = w
                  /\ Cardinality(EvIdx(L, "shot", "seed")) = 1

\* the task of such a page is finished: both root URLs were fetched as children
\* and a child's screenshot was dispatched besides the seed's
C10_Witness ==
    \E s \in Tasks :
        LET L == task[s].log IN
        /\ is_html_ext(ext_or_bin(s)) /\ OnlySkipWorthy(Resource(s))
        /\ task[s].pc = "done"
        /\ Cardinality(EvIdx(L, "fetch", "child")) = 2
        /\ EvIdx(L, "shot", "child") # {}
        /\ EvIdx(L, "shot", "seed") # {}

----------------------------------------------------------------------------
(* Browser pool and screenshot tasks (ShotSpec).                           *)

Jobs == {chrome.job[w] : w \in ShotWorkers}

\* C11: while invalidate() has not run, the browser is launched at most once
\* and every screenshot task that holds an instance holds the one stored in
\* the slot.
C11_Singleton ==
    chrome.invalidations = 0 =>
        /\ chrome.launched <= 1
        /\ \A j \in Jobs : j.browser # 0 => j.browser = chrome.slot

Retryable == {"connection is closed", "WebSocket"}

C12_Inv ==
    \A j \in Jobs :
        /\ j.attempt <= 2
        /\ j.attempt = 2 <=> j.first \in Retryable
        /\ j.attempt = 2 => j.pc \in {"get_read", "launch", "new_tab", "capture", "done", "failed"}
        /\ (j.attempt = 2 /\ j.browser # 0) => (j.failed # 0 /\ j.browser # j.failed)
        /\ j.first \in TabErrors \ Retryable => j.pc = "failed"

C12_Step ==
    \A w \in ShotWorkers :
        LET j == chrome.job[w]
            k == chrome'.job[w] IN
        k # j =>
            /\ k.attempt >= j.attempt
            /\ (k.attempt > j.attempt /\ j.attempt > 0) =>
                   /\ j.pc = "new_tab" /\ k.pc = "get_read"
                   /\ k.failed = j.browser
                   /\ ~chrome.poisoned => chrome'.slot = 0
            /\ (j.pc = "new_tab" /\ j.attempt = 2) => k.pc \in {"capture", "failed"}
            /\ j.pc = "capture" => k.pc \in {"done", "failed"}

\* C12: a screenshot task makes at most two attempts; the second one happens
\* exactly when new_tab failed on the first with "connection is closed" or
\* "WebSocket", the slot is emptied in between and the second attempt gets
\* another instance than the one that failed; every other error ends the task.
C12_RetryProtocol == []C12_Inv /\ [][C12_Step]_vars

C12_Witness ==
    \E j \in Jobs : j.attempt = 2 /\ j.pc = "capture" /\ j.browser # j.failed

----------------------------------------------------------------------------
C13_Step ==
    /\ BagCardinality(shots') < BagCardinality(shots) =>
           UNCHANGED <<phase, seeds, task, lock, report>>
    /\ \A s \in seeds :
           (task[s].pc = "shot" /\ task'[s] # task[s]) =>
               /\ task'[s].pc # "shot"
               /\ BagCardinality(shots') = BagCardinality(shots) + 1

Shot(n) == {task[n].log[i].url : i \in EvIdx(task[n].log, "shot", "seed")
                                      \cup EvIdx(task[n].log, "shot", "child")}

\* C13: the end of a screenshot task, failed or not, changes nothing in the URL
\* tasks, the report or the run; the dispatching task moves on in the step
\* that dispatches; and the run reaches its end with every seed successful
\* even if no screenshot task ever makes a step.
C13_FireAndForget ==
    /\ [][C13_Step]_vars
    /\ [](\A n \in Tasks : task[n].pc = "done" => task[n].res = "ok")
    /\ ((phase = "fanout") ~> (phase = "done" /\ \A n \in seeds : task[n].res = "ok"))

\* the run is over: one dispatched screenshot has failed (no PNG and no task
\* left for it) and another one has not finished yet
C13_Witness ==
    /\ phase = "done"
    /\ shots # EmptyBag
    /\ \E n \in seeds : \E u \in Shot(n) :
        /\ task[n].res = "ok"
        /\ screenshot_path(u) \notin files
        /\ \A j \in BagToSet(shots) : j.url # u

----------------------------------------------------------------------------
(* File names, paths and links (FnSpec).                                   *)

\* C14: the asset path of every URL resolves under the assets or the
\* JSscripts directory of the workspace, its screenshot path under the
\* screenshots directory, and the path of every archive member, whatever
\* its name, under the assets directory.
C14_PathContainment ==
    /\ probe.fn = "url" =>
        /\ resolves_under(probe.path, assets_dir) \/ resolves_under(probe.path, jsscripts_dir)
        /\ resolves_under(probe.shot, screenshots_dir)
        /\ resolves_under(probe.path, Workspace)
    /\ probe.fn = "member" =>
        /\ resolves_under(probe.path, assets_dir)
        /\ resolves_under(probe.path, Workspace)

\* a member named "/.." has been given its path
C14_Witness ==
    /\ probe.fn = "member"
    /\ probe.name = S(<<"/", ".", ".">>)
    /\ resolves_under(probe.path, assets_dir)

\* the text after the last '.' of the last segment of the parsed path of u,
\* lowercased; "bin" without a '.' or without a parse
LastSegmentExt(u) ==
    LET url == Url_parse(u)
        segs == split(url.path, SLASH)
        name == segs[Len(segs)]
        parts == split(name, <<".">>) IN
    IF ~url.ok \/ Len(parts) = 1 THEN Str("bin")
    ELSE to_ascii_lowercase_str(parts[Len(parts)])

File(dir, sub, name) == join_with(<<Workspace, dir>> \o sub \o <<name>>, SLASH)

\* C15: a fetched resource is stored as JSscripts/{safe}.js when the
\* extension of its URL is "js", as assets/{ext}/{safe}.{ext} when the
\* extension is a known text or archive extension, and as
\* assets/bin/{safe}.{ext} otherwise; the stored file has the URL's extension.
C15_AssetRouting ==
    probe.fn = "url" =>
        LET ext == LastSegmentExt(probe.url)
            safe == sanitize_filename_str(probe.url)
            name == safe \o S(<<".">>) \o ext IN
        /\ probe.ext = ext
        /\ ext = Str("js") => probe.path = File(Str("JSscripts"), <<>>, name)
        /\ (ext # Str("js") /\ ext \in TEXT_EXTS_str \cup ARCHIVE_EXTS_str) =>
               probe.path = File(Str("assets"), <<ext>>, name)
        /\ ext \notin TEXT_EXTS_str \cup ARCHIVE_EXTS_str =>
               probe.path = File(Str("assets"), <<Str("bin")>>, name)
        /\ Drop(probe.path, RFind(probe.path, {<<".">>})) = ext

\* "/a.JS" has been routed to the scripts directory
C15_Witness ==
    /\ probe.fn = "url"
    /\ probe.url = Str("http") \o S(<<":", "/", "/">>) \o HostEx \o S(<<"/", "a", ".", "J", "S">>)
    /\ probe.ext = Str("js")
    /\ resolves_under(probe.path, jsscripts_dir)

IsHex(c) == c[1] = "hex"

\* [A-Za-z0-9_.-]
NameChars == Letters \cup Digits \cup {<<"_">>, <<".">>, <<"-">>}

\* C16: the name made from a URL is the same on every call, has at most 100
\* characters and consists of characters of [A-Za-z0-9_.-] followed by "__"
\* and the 12 hex digits of the digest.
C16_Fingerprint ==
    probe.fn = "url" =>
        LET name == probe.safe
            n == Len(name) IN
        /\ probe.again = name
        /\ n <= NAME_MAX
        /\ n >= HASH_LEN + 2
        /\ \A i \in 1..n :
            IF i > n - HASH_LEN THEN IsHex(name[i]) ELSE name[i] \in NameChars
        /\ name[n - HASH_LEN - 1] = <<"_">> /\ name[n - HASH_LEN] = <<"_">>

\* the URLs the crawler may be given or may find as links
LiveUrls == HttpUrls

\* C17: the virtual URL of an archive member is the URL of no live resource
\* and the member's file is the file of no live resource.
C17_VirtualUrlsApart ==
    probe.fn = "member" =>
        \A live \in LiveUrls :
            /\ probe.virt # live
            /\ probe.path # asset_path_for_str(live, ext_or_bin_str(live))

\* C18: two members of one archive with different names get different file
\* names (their digests differ), whatever the host and the path of the
\* archive's URL, and so different files.
C18_MembersApart ==
    probe.fn = "member" =>
        \A m2 \in MemberNames \ {probe.name} :
            LET virt2 == virt_url_str(probe.url, m2) IN
            /\ short_str(virt2) # short_str(probe.virt)
            /\ sanitize_filename_str(virt2) # probe.safe
            /\ build_asset_path_from_parts_str(virt2, member_ext_str(m2)) # probe.path

----------------------------------------------------------------------------
\* C19: the screenshot tasks that have been dispatched and have not finished
\* write to different files: no file is the target of two of them.
C19_DistinctWritePaths ==
    \A j \in BagToSet(shots) :
        /\ CopiesIn(j, shots) = 1
        /\ \A k \in BagToSet(shots) :
               k # j => screenshot_path(k.url) # screenshot_path(j.url)

----------------------------------------------------------------------------
SchemeOf(u) == Take(u, Find(u, {<<":">>}) - 1)

\* C20: no link extracted from a page is a mailto:, javascript: or data: URL,
\* whatever the href and src values of the page are.
C20_NoSkippedSchemes ==
    probe.fn = "links" =>
        \A u \in probe.out : SchemeOf(u) \notin {Str("mailto"), Str("javascript"), Str("data")}

----------------------------------------------------------------------------
\* the distinct lines of out.txt, without surrounding whitespace and without
\* the blank ones
DistinctLines == {u \in {listing[i].text : i \in 1..Len(listing)} : u # NoUrl}

C21_Inv ==
    phase \in {"fanout", "done"} =>
        /\ seeds = DistinctLines
        /\ DOMAIN task = seeds
        /\ \A n \in seeds :
            /\ Cardinality(EvIdx(task[n].log, "fetch", "seed")) <= 1
            /\ \A i \in EvIdx(task[n].log, "fetch", "seed") : task[n].log[i].url = n
            /\ (task[n].pc \notin {"idle", "start"} /\ ~should_ignore_path(n)) =>
                   EvIdx(task[n].log, "fetch", "seed") # {}

C21_Step ==
    /\ phase \in {"fanout", "done"} => seeds' = seeds
    /\ \A n \in seeds :
        /\ (task'[n].pc = "start" /\ task[n].pc # "start") => task[n].pc = "idle"
        /\ task[n].pc # "idle" => task'[n].pc # "idle"
        /\ task[n].pc = "done" => task'[n] = task[n]

\* C21: the seeds of a run are exactly the distinct non-blank lines of
\* out.txt without their surrounding whitespace; each seed is started once,
\* is fetched under its own URL at most once as a seed, and once finished is
\* never started again.
C21_SeedSet == []C21_Inv /\ [][C21_Step]_vars

\* a listing with a repeated, a padded and a blank line has been read and its
\* one seed has finished
C21_Witness ==
    /\ phase = "done"
    /\ Len(listing) > Cardinality(seeds) + 1
    /\ \E i \in 1..Len(listing) : listing[i].ws /\ listing[i].text \in seeds
    /\ \A n \in seeds : task[n].pc = "done" /\ EvIdx(task[n].log, "fetch", "seed") # {}

----------------------------------------------------------------------------
\* the file members of the archive in hand that have no file on disk
MissingMembers(t) ==
    {i \in 1..Len(t.body.members) :
        /\ t.body.members[i].file
        /\ build_asset_path_from_parts(virt_url(t.eff, t.body.members[i].name),
                                       member_ext(t.body.members[i].name)) \notin files}

C22_Step ==
    \A n \in seeds :
        (task[n].pc = "arc_member" /\ task'[n].pc # "arc_member") =>
            Cardinality(MissingMembers(task[n])) <= faults'

\* C22: when the worker returns from an archive it could open, every file
\* member has been persisted except those whose own read or write failed:
\* an entry that cannot be read costs that entry only.
C22_MemberErrorsContained == [][C22_Step]_vars

----------------------------------------------------------------------------
\* the extension of a name as detect_ext takes it from a URL's last segment
NameExt(name) ==
    LET dot == RFind(name, {<<".">>}) IN
    IF dot = 0 THEN Str("bin") ELSE to_ascii_lowercase_str(Drop(name, dot))

\* C23: an archive member is stored where asset_path_for puts its virtual
\* URL with the member's extension, the extension being the lowercased text
\* after the last '.' of the member's name and "bin" for a name without '.'.
C23_MembersUseRouter ==
    probe.fn = "member" =>
        /\ probe.ext = NameExt(probe.name)
        /\ probe.path = asset_path_for_str(probe.virt, NameExt(probe.name))

----------------------------------------------------------------------------
\* the byte at position i of a buffer
RECURSIVE ByteAt(_, _)
ByteAt(data, i) == IF i <= data[1].n THEN data[1].b ELSE ByteAt(Tail(data), i - data[1].n)

\* a buffer cut after its first n bytes
RECURSIVE Prefix(_, _)
Prefix(data, n) ==
    IF data = <<>> \/ n = 0 THEN <<>>
    ELSE IF data[1].n >= n THEN <<Run(data[1].b, n)>>
    ELSE <<data[1]>> \o Prefix(Tail(data), n - data[1].n)

\* C24: a buffer is taken for text exactly when it is not empty and fewer
\* than a tenth of its first min(len, 2048) bytes are outside 0x20..0x7E and
\* are not newline, carriage return or tab; the bytes after the first 2048
\* do not matter.
C24_TextSniff ==
    probe.fn = "sniff" =>
        LET len == buf_len(probe.data)
            s == IF len < 2048 THEN len ELSE 2048
            weird == Cardinality({i \in 1..s :
                        LET b == ByteAt(probe.data, i) IN
                        b \notin {9, 10, 13} /\ (b < 32 \/ b > 126)}) IN
        /\ probe.out <=> (len > 0 /\ weird * 10 < s)
        /\ len = 0 => ~probe.out
        /\ weird * 10 >= s => ~probe.out
        /\ probe.out = is_probably_text_bytes(Prefix(probe.data, 2048))

\* a sample of 2048 bytes with 204 weird ones, just under a tenth, is text;
\* 204 more bytes follow the sample
C24_Witness ==
    /\ probe.fn = "sniff"
    /\ probe.data = <<Run(127, 204), Run(32, SAMPLE_LEN)>>
    /\ probe.out

----------------------------------------------------------------------------
\* p is the directory dir or lies below it
resolves_within(p, dir) ==
    LET a == resolve(p)
        d == resolve(dir) IN
    /\ a.abs = d.abs
    /\ a.up = d.up
    /\ Len(a.at) >= Len(d.at)
    /\ Take(a.at, Len(d.at)) = d.at

\* p is a directory above dir, which is_file rejects
names_ancestor(p, dir) ==
    LET a == resolve(p)
        d == resolve(dir) IN
    /\ a.abs = d.abs
    /\ \/ a.up > d.up /\ a.at = <<>>
       \/ a.up = d.up /\ Len(a.at) < Len(d.at) /\ Take(d.at, Len(a.at)) = a.at

\* C25: for every request the file the report server reads lies within the
\* served root out_dir (a path that names a directory above out_dir is no
\* file and is answered with 404).
C25_ServedUnderRoot ==
    probe.fn = "request" =>
        \/ resolves_within(probe.fs_path, out_dir)
        \/ names_ancestor(probe.fs_path, out_dir)

----------------------------------------------------------------------------
\* await points of the fetcher and of the archive inspector
Suspended == {"live", "live_body", "cdx", "cdx_body", "arch", "arch_body",
              "arc_open", "arc_member"}

C26_Inv ==
    /\ lock \in Tasks \cup {NoUrl}
    /\ \A s \in Tasks :
        /\ lock = s => task[s].pc = "write"
        /\ task[s].pc \in Suspended => lock # s

C26_Step ==
    \A s \in Tasks :
        /\ (s \in DOMAIN task' /\ task[s].pc = "write" /\ task'[s].pc # "write")
              => lock' = NoUrl
        /\ (s \in DOMAIN task' /\ task[s].pc = "lock" /\ task'[s].pc # "lock")
              => lock' = s /\ task'[s].pc = "write"

\* C26: the report mutex is held only by a task that is writing one block; it
\* is free again when the task leaves the block, after the last line or after
\* a failed write; it is never held at an await of a fetch or while the
\* archive inspector runs; and a task that waits for it acquires it: a task
\* stops waiting only by taking the mutex, and no task waits for ever.
C26_LockDiscipline ==
    /\ []C26_Inv
    /\ [][C26_Step]_vars
    /\ <>[](\A n \in Tasks : task[n].pc # "lock")

\* a write failed in the middle of one task's block, and another task holds
\* the mutex now
C26_Witness ==
    \E s1 \in Tasks, s2 \in Tasks :
        /\ s1 # s2
        /\ lock = s2
        /\ task[s1].pc # "write"
        /\ \E k \in Lines :
            /\ report[k].by = s1 /\ ~report[k].arch
            /\ Cardinality({j \in Lines : SameBlock(report[j], report[k])})
                  < 1 + Len(scan_patterns(Resource(report[k].url)))

----------------------------------------------------------------------------
\* the URLs handle_html_links has to visit for the page of seed s read at
\* base: its links and the two well-known names under the root
PageBatch(s, base) ==
    extract_links(Resource(s), base)
        \cup {root_child(r, n) : r \in root_of(base), n \in INTERESTING_NAMES}

C27_Inv ==
    \A s \in Tasks :
        LET L == task[s].log
            lk == EvIdx(L, "links", "seed")
            batch == IF lk = {} THEN {} ELSE PageBatch(s, L[CHOOSE i \in lk : TRUE].url)
            kids == EvIdx(L, "fetch", "child")
        IN
        /\ \A i \in kids, j \in kids : L[i].url = L[j].url => i = j
        /\ \A i \in kids : L[i].url \in batch /\ ~should_ignore_path(L[i].url)
        /\ (task[s].pc = "done" /\ lk # {})
              => {L[i].url : i \in kids} = {u \in batch : ~should_ignore_path(u)}

C27_Step ==
    \A s \in Tasks :
        (/\ s \in DOMAIN task'
         /\ Len(task'[s].log) = Len(task[s].log) + 1
         /\ task'[s].log[Len(task'[s].log)].what = "fetch_err"
         /\ task[s].ctx = "child")
        => task'[s].pc = "child" /\ task'[s].todo = task[s].todo

\* C27: of the batch of a page (its links plus robots.txt and sitemap.xml
\* under the root) every URL is fetched at most once, an ignored one never,
\* and every other one exactly once by the time the task ends: a failed child
\* fetch leaves the loop running, and the page's own URL is not excluded.
C27_ChildBatch == []C27_Inv /\ [][C27_Step]_vars

\* a finished task fetched its own page again as a child, and went on to a
\* further child after a child's fetch had failed
C27_Witness ==
    \E s \in Tasks :
        LET L == task[s].log
            kids == EvIdx(L, "fetch", "child") IN
        /\ task[s].pc = "done"
        /\ \E l \in EvIdx(L, "links", "seed"), i \in kids : L[i].url = L[l].url
        /\ \E e \in EvIdx(L, "fetch_err", "child"), k \in kids : k > e

----------------------------------------------------------------------------
\* the URLs of the log entries `what` of the seed or of the children, in order
UrlsOf(L, what, ctx) ==
    LET picked == SelectSeq(L, LAMBDA e : e.what = what /\ e.ctx = ctx) IN
    [i \in DOMAIN picked |-> picked[i].url]

\* C28: a URL task dispatches one screenshot for the seed exactly when the
\* seed's fetch succeeded and one for every child whose fetch succeeded, each
\* under the effective URL of the fetch, whatever became of saving, scanning,
\* report writing and archive inspection; an ignored URL and a URL whose fetch
\* failed get none.
C28_ShotPerFetch ==
    \A s \in Tasks :
        LET L == task[s].log IN
        /\ \A ctx \in {"seed", "child"} :
            LET got == UrlsOf(L, "fetched", ctx)
                shot == UrlsOf(L, "shot", ctx) IN
            /\ Len(shot) <= Len(got)
            /\ shot = SubSeq(got, 1, Len(shot))
            /\ task[s].pc = "done" => shot = got
        /\ Len(UrlsOf(L, "fetched", "seed")) <= 1
        /\ Len(UrlsOf(L, "fetched", "seed")) + Len(UrlsOf(L, "fetch_err", "seed"))
              <= Len(UrlsOf(L, "fetch", "seed"))
        /\ should_ignore_path(s) => UrlsOf(L, "shot", "seed") = <<>>

\* a finished task dispatched the seed's screenshot and a child's although
\* the seed was not saved, and none for the child whose fetch failed
C28_Witness ==
    \E s \in Tasks :
        LET L == task[s].log IN
        /\ task[s].pc = "done"
        /\ faults > 0
        /\ Len(UrlsOf(L, "shot", "seed")) = 1
        /\ asset_path_for(UrlsOf(L, "shot", "seed")[1],
                          ext_or_bin(UrlsOf(L, "shot", "seed")[1])) \notin files
        /\ UrlsOf(L, "shot", "child") # <<>>
        /\ UrlsOf(L, "fetch_err", "child") # <<>>

----------------------------------------------------------------------------
\* header lines of the report
Headers == {k \in Lines : report[k].idx = 0}

\* the line after line k is the first finding of the same block
FindingFollows(k) ==
    k < Len(report) /\ SameBlock(report[k + 1], report[k]) /\ report[k + 1].idx = 1

DirectHits(u) ==
    IF is_probably_text(Resource(u)) /\ Resource(u).utf8 THEN scan_patterns(Resource(u)) ELSE <<>>

C29_Inv ==
    /\ \A k \in Headers :
        /\ \/ FindingFollows(k)
           \/ LET w == task[report[k].by] IN
              w.pc = "write" /\ w.blk = report[k].blk /\ w.wr = 1 /\ k = Len(report)
           \/ faults > 0
        /\ ~report[k].arch => DirectHits(report[k].url) # <<>>
        /\ report[k].arch =>
              \E i \in DOMAIN Resource(report[k].url).members :
                  LET m == Resource(report[k].url).members[i] IN
                  is_probably_text(m) /\ m.utf8 /\ scan_patterns(m) # <<>>
    /\ \A s \in Tasks : task[s].pc \in {"lock", "write"} => task[s].hits # <<>>

C29_Step ==
    \A s \in Tasks :
        (s \in DOMAIN task' /\ task[s].pc = "write" /\ task'[s].pc # "write")
        => \/ faults' = faults + 1 /\ report' = report
           \/ /\ Len(report') = Len(report) + 1
              /\ report'[Len(report')].idx >= 1
              /\ report'[Len(report')].by = s

----------------------------------------------------------------------------
\* screenshot tasks dispatched and not yet ended
Pending == BagCardinality(shots)

C30_Inv ==
    /\ phase = "fanout" => \E n \in seeds : task[n].pc # "done"
    /\ phase = "done" => \A n \in seeds : task[n].pc = "done"
    /\ \A s \in Tasks : task[s].pc = "shot" => ENABLED spawn_screenshot(s)

C30_Step ==
    /\ (phase = "fanout" /\ phase' = "done") => Pending' >= Pending
    /\ \A s \in Tasks :
        (s \in DOMAIN task' /\ task[s].pc = "shot" /\ task'[s].pc # "shot")
        => Pending' = Pending + 1

\* C30: run_scan returns in the step in which the last seed's task ends,
\* whatever screenshot tasks are left; a screenshot is dispatched whenever a
\* task reaches the dispatch, however many are pending, so more than the
\* stream's four can be pending at once, and at the return a dispatched
\* screenshot may have no PNG yet.
C30_ReturnBeforeShots == []C30_Inv /\ [][C30_Step]_vars

\* run_scan has returned with more screenshot tasks pending than the stream
\* kept URL tasks in flight, and none of them has written its PNG
C30_Witness ==
    /\ phase = "done"
    /\ Pending > Concurrency
    /\ \A j \in BagToSet(shots) : screenshot_path(j.url) \notin files

----------------------------------------------------------------------------
\* the marks of a complete start-up, in the order of run_scan
StartupOrder ==
    <<"dirs", "fetch", "out.txt", "extract", "subdomains.txt", "sensitive_info.txt">>

\* the marks due for the listing in hand: subdomains.txt only if there are hosts
StartupDue ==
    IF subdomains_of(listing) # {} THEN StartupOrder
    ELSE SelectSeq(StartupOrder, LAMBDA m : m # "subdomains.txt")

C31_Inv ==
    /\ startup = SubSeq(StartupDue, 1, Len(startup))
    /\ (phase \in {"fanout", "done"} \/ seeds # {} \/ DOMAIN task # {}) => startup = StartupDue
    /\ phase = "failed" =>
          /\ seeds = {} /\ DOMAIN task = {}
          /\ report = <<>> /\ files = {} /\ shots = EmptyBag
    /\ (listing # <<>>) <=> (Len(startup) >= 2)

C31_Step ==
    /\ phase = "failed" => phase' = "failed" /\ seeds' = seeds /\ task' = task
    /\ startup' # startup => seeds = {} /\ seeds' = {} /\ phase' \notin {"fanout", "done"}
    /\ (phase \notin {"fanout", "done", "failed"} /\ phase' # phase /\ startup' = startup)
          => \/ phase' = "failed"
             \/ phase = "extracted" /\ subdomains_of(listing) = {} /\ phase' = "subs"
             \/ phase = "report" /\ phase' \in {"fanout", "done"}

\* C31: run_scan creates the directories, fetches the listing, writes out.txt,
\* extracts the subdomains (writing subdomains.txt only when there are any) and
\* creates the report file, in this order, before the first URL task starts;
\* when one of these steps fails run_scan returns the error, nothing further
\* is done and no URL task ever starts.
C31_StartupOrder == []C31_Inv /\ [][C31_Step]_vars

\* the report file could not be created: out.txt was written, no subdomains.txt
\* was due for a listing without hosts, and run_scan has returned the error
C31_Witness ==
    /\ phase = "failed"
    /\ listing # <<>>
    /\ subdomains_of(listing) = {}
    /\ startup = <<"dirs", "fetch", "out.txt", "extract">>
    /\ seeds = {}

====
